---------------------------- MODULE Spec2Model ----------------------------
(***************************************************************************)
(* go-tunol: the gateway's TunnelHandler (tunnel registry, pending-request *)
(* map, ServeHTTP, handleWS, the dead-connection sweeper) and the agent's  *)
(* manager (NewTunnel, handleMessages), joined by one websocket connection *)
(* per agent tunnel.                                                       *)
(***************************************************************************)
EXTENDS Integers, Sequences, FiniteSets, TLC

(***************************************************************************)
(* Bounds of the model.                                                    *)
(***************************************************************************)
NumConns == 1
NumRequests == 2
CharsetSize == 2
MaxQueue == 1
MaxRaw == 3
MaxBody == 3

\* generateID draws 8 characters; the model draws IdLength characters.
IdLength == 1

\* the error hint takes 30 bytes of the body; the model takes HintLength bytes.
HintLength == 2

Conns == 1..NumConns
Requests == 1..NumRequests
Charset == 1..CharsetSize
Ids == [1..IdLength -> Charset]
Ports == {8000}
Tokens == {"", "good", "bad"}

StatusOK == 200
StatusNotFound == 404
StatusInternalServerError == 500
StatusGatewayTimeout == 504
StatusTemporaryRedirect == 307
StatusBadRequest == 400

VARIABLES
    tunnels,          \* th.tunnels: tunnel id -> Tunnel
    pendingRequests,  \* th.pendingRequests: request id -> response channel
    chans,            \* the response channel made by each ServeHTTP call
    now,              \* time.Now(), a logical clock
    done,             \* th.done is closed: the sweeper loop has returned
    mu,               \* th.mu: the goroutine that holds the mutex, if any
    sweep,            \* position of cleanupDeadConnections in its pass
    srv,              \* position of the gateway's handler of each connection
    srvReply,         \* the TunnelResponse the handler is about to send
    srvClosed,        \* the gateway's end of the connection is closed
    cli,              \* position of the agent's NewTunnel/handleMessages
    cliClosed,        \* the agent's end of the connection is closed
    raws,             \* frames a raw websocket peer has written so far
    lost,             \* the network path of the connection has failed
    token,            \* bearer token the agent put on the upgrade request
    toAgent,          \* frames in flight gateway -> agent
    toGateway,        \* frames in flight agent -> gateway
    calls,            \* agent: local HTTP calls in progress, per request id
    agentTunnels,     \* agent: manager.tunnels, url -> tunnel (its connection)
    agentUrl,         \* agent: tunnel.url of the tunnel of each connection
    agentErr,         \* agent: the error NewTunnel returned, if any
    pc,               \* position of each ServeHTTP call
    tunnelRef,        \* the connection of the *Tunnel each call looked up
    requestId,        \* the request id each ServeHTTP call generated
    outcome,          \* how each ServeHTTP call left its wait
    written,          \* status code written to the public caller (0: none)
    delivered,        \* history: request ids of the values sent on each channel
    lastResp,         \* history: what the latest HTTPResponse frame came to
    orphaned,         \* history: session torn down while the call waited
    cleaned,          \* history: tunnels removed by each connection's cleanup
    pongs,            \* history: Pong frames the gateway sent on each connection
    tUrl,             \* round trip: t.url of the tunnel the request came on
    httpReq,          \* round trip: the HTTPRequest the goroutine serves
    localResp,        \* round trip: status, body and buffer of the local response
    events,           \* round trip: c.events is not nil
    respSent,         \* round trip: the HTTPResponse was sent
    received,         \* round trip: the events the handler was called with
    step,             \* round trip: position of the goroutine
    args,             \* a function on its own: the arguments of the call
    result            \* a function on its own: what the call returned

registryVars == <<tunnels, pendingRequests, chans>>
connVars == <<srv, srvReply, srvClosed>>
gatewayVars == <<registryVars, now, connVars>>
agentVars == <<cli, cliClosed, token, calls, agentTunnels, agentUrl, agentErr>>
wireVars == <<toAgent, toGateway, raws, lost>>
requestVars == <<pc, tunnelRef, requestId, outcome, written>>
historyVars == <<delivered, lastResp, orphaned, cleaned, pongs>>
eventVars == <<tUrl, httpReq, localResp, events, respSent, received, step>>
pureVars == <<args, result>>
lockVars == <<mu, sweep>>
vars == <<gatewayVars, done, lockVars, agentVars, wireVars, requestVars, historyVars,
          eventVars, pureVars>>

(***************************************************************************)
(* Frames (proto.Message) and their payloads.                              *)
(***************************************************************************)
NoPayload == [none |-> TRUE]
Message(type, payload) == [Type |-> type, Payload |-> payload]
PingMessage == Message("ping", NoPayload)
PongMessage == Message("pong", NoPayload)
TunnelRequest(port) == Message("tunnel_req", [LocalPort |-> port])
TunnelResponse(url) == Message("tunnel_resp", [URL |-> url])
HTTPRequest(rid) == Message("http_request", [RequestId |-> rid])
HTTPResponse(code, rid) == Message("http_response", [StatusCode |-> code, RequestId |-> rid])
ErrorMessage(text) == Message("error", [error |-> text])

\* strings.HasPrefix
HasPrefix(s, prefix) ==
    /\ Len(prefix) <= Len(s)
    /\ SubSeq(s, 1, Len(prefix)) = prefix

\* a public URL that leaves the tunnel id out
BareURL(id) == <<"http://localhost:8001", "/local/", <<>>>>

\* cfg.SubdomainURL in path mode: base URL, "/local/", id
SubdomainURL(id) == <<"http://localhost:8001", "/local/", id>>

NoId == <<>>
NewChan == [buf |-> <<>>, closed |-> FALSE]
\* NewTunnel has returned no error
NoError == [kind |-> "none", reason |-> ""]

\* th.mu is held by no one, or by the goroutine that locked it
Free == [task |-> "", n |-> 0]
Holder(task, n) == [task |-> task, n |-> n]

\* cleanupDeadConnections is not running
NoSweep == [at |-> "idle", todo |-> {}, id |-> NoId]

GatewayInitOn(conns) ==
    /\ tunnels = <<>>
    /\ pendingRequests = <<>>
    /\ chans = [p \in Requests |-> NewChan]
    /\ now = 0
    /\ done = FALSE
    /\ mu = Free
    /\ sweep = NoSweep
    /\ srv = [c \in conns |-> "none"]
    /\ srvReply = [c \in conns |-> NoPayload]
    /\ srvClosed = [c \in conns |-> FALSE]
    /\ cli = [c \in conns |-> "init"]
    /\ cliClosed = [c \in conns |-> FALSE]
    /\ raws = 0
    /\ lost = [c \in conns |-> FALSE]
    /\ token = [c \in conns |-> ""]
    /\ toAgent = [c \in conns |-> <<>>]
    /\ toGateway = [c \in conns |-> <<>>]
    /\ calls = [c \in conns |-> [r \in Ids |-> 0]]
    /\ agentTunnels = <<>>
    /\ agentUrl = [c \in conns |-> <<>>]
    /\ agentErr = [c \in conns |-> NoError]
    /\ pc = [p \in Requests |-> "idle"]
    /\ tunnelRef = [p \in Requests |-> 0]
    /\ requestId = [p \in Requests |-> NoId]
    /\ outcome = [p \in Requests |-> "none"]
    /\ written = [p \in Requests |-> 0]
    /\ delivered = [p \in Requests |-> <<>>]
    /\ lastResp = [kind |-> "none", rid |-> NoId]
    /\ orphaned = [p \in Requests |-> FALSE]
    /\ cleaned = [c \in conns |-> 0]
    /\ pongs = [c \in conns |-> 0]

\* NewTunnelHandler, before any of the NumConns connections was made
GatewayInit == GatewayInitOn(Conns)

\* no round trip is looked at: the gateway and the agent run, and the manager
\* was made without an event handler
NoRoundTrip ==
    /\ tUrl = <<>>
    /\ httpReq = NoPayload
    /\ localResp = NoPayload
    /\ events = FALSE
    /\ respSent = FALSE
    /\ received = <<>>
    /\ step = "none"

\* no function is looked at on its own
NotCalled == [none |-> TRUE]
NoCall == args = NotCalled /\ result = NotCalled

Init == GatewayInit /\ NoRoundTrip /\ NoCall

(***************************************************************************)
(* Map helpers: Go's map assignment and delete.                            *)
(***************************************************************************)
MapSet(m, k, v) == [x \in DOMAIN m \cup {k} |-> IF x = k THEN v ELSE m[x]]
MapDelete(m, k) == [x \in DOMAIN m \ {k} |-> m[x]]
MapDeleteAll(m, ks) == [x \in DOMAIN m \ ks |-> m[x]]

\* websocket.JSON.Send on the gateway's end of connection c can succeed / fail
GatewaySendCanSucceed(c) == ~srvClosed[c]
GatewaySendCanFail(c) == srvClosed[c] \/ cliClosed[c] \/ lost[c]
\* the frames in flight after a successful gateway send (lost if the peer is gone)
GatewaySent(c, msg) ==
    IF cliClosed[c] \/ lost[c] \/ cli[c] = "raw" THEN toAgent ELSE [toAgent EXCEPT ![c] = Append(@, msg)]
GatewaySendHasRoom(c) == cliClosed[c] \/ lost[c] \/ cli[c] = "raw" \/ Len(toAgent[c]) < MaxQueue

\* the same for the agent's end
AgentSendCanSucceed(c) == ~cliClosed[c]
AgentSendCanFail(c) == srvClosed[c] \/ cliClosed[c] \/ lost[c]
AgentSent(c, msg) ==
    IF srvClosed[c] \/ lost[c] THEN toGateway ELSE [toGateway EXCEPT ![c] = Append(@, msg)]
AgentSendHasRoom(c) == srvClosed[c] \/ lost[c] \/ Len(toGateway[c]) < MaxQueue

(***************************************************************************)
(* TunnelHandler.ServeHTTP, one call per public request p.                 *)
(***************************************************************************)
\* public request p arrives; the requests are numbered in their order of arrival
Arrives(p) == pc[p] = "idle" /\ \A q \in Requests : q < p => pc[q] # "idle"

\* the public URLs, as the segments of the path after the leading "/":
\* "/", "/local", "/local/{id}", "/local/{id}/x", and the same under "/other";
\* NoId in the second place is the empty segment of "/local/"
PublicPaths ==
    {<<"">>}
      \cup {<<a>> : a \in {"local", "other"}}
      \cup {<<a, id>> : a \in {"local", "other"}, id \in Ids \cup {NoId}}
      \cup {<<a, id, "x">> : a \in {"local", "other"}, id \in Ids \cup {NoId}}

\* an extraction that takes the second segment whatever the first one is
extractSecondSegment(segments) ==
    IF Len(segments) < 2
    THEN [tunnelID |-> NoId, remainingPath |-> <<>>, err |-> "invalid local tunnel path format"]
    ELSE [tunnelID |-> segments[2], remainingPath |-> SubSeq(segments, 3, Len(segments)), err |-> ""]

\* extractTunnelIDAndPath in path mode, on the segments of the URL's path
extractTunnelIDAndPath(segments) ==
    IF Len(segments) < 2 \/ segments[1] # "local"
    THEN [tunnelID |-> NoId, remainingPath |-> <<>>, err |-> "invalid local tunnel path format"]
    ELSE IF segments[2] = NoId
    THEN [tunnelID |-> NoId, remainingPath |-> <<>>, err |-> "empty tunnel_id"]
    ELSE [tunnelID |-> segments[2],
          remainingPath |-> SubSeq(segments, 3, Len(segments)), err |-> ""]

\* lines 153-184: the tunnel id of the URL is not registered (or the URL is
\* malformed, which is logged, and the id is empty): 404
ServeHTTPNotFound(p, url) ==
    /\ Arrives(p)
    /\ extractTunnelIDAndPath(url).tunnelID \notin DOMAIN tunnels
    /\ pc' = [pc EXCEPT ![p] = "done"]
    /\ outcome' = [outcome EXCEPT ![p] = "notfound"]
    /\ written' = [written EXCEPT ![p] = StatusNotFound]
    /\ UNCHANGED <<gatewayVars, agentVars, wireVars, historyVars, tunnelRef, requestId>>
    /\ UNCHANGED eventVars
    /\ UNCHANGED done
    /\ UNCHANGED pureVars
    /\ UNCHANGED lockVars

\* lines 158-160: the tunnel is found
ServeHTTPLookup(p, url) ==
    /\ Arrives(p)
    /\ extractTunnelIDAndPath(url).tunnelID \in DOMAIN tunnels
    /\ tunnelRef' = [tunnelRef EXCEPT ![p] =
                         tunnels[extractTunnelIDAndPath(url).tunnelID].WSConn]
    /\ pc' = [pc EXCEPT ![p] = "register"]
    /\ UNCHANGED <<gatewayVars, agentVars, wireVars, historyVars, requestId, outcome, written>>
    /\ UNCHANGED eventVars
    /\ UNCHANGED done
    /\ UNCHANGED pureVars
    /\ UNCHANGED lockVars

\* the pending map after lines 190-192 stored the channel of p under rid
RegisterSlot(pending, rid, p) == MapSet(pending, rid, p)

\* lines 187-192: make the channel, generate the request id, register the slot
ServeHTTPRegister(p, rid) ==
    /\ pc[p] = "register"
    /\ requestId' = [requestId EXCEPT ![p] = rid]
    /\ pendingRequests' = RegisterSlot(pendingRequests, rid, p)
    /\ pc' = [pc EXCEPT ![p] = "forward"]
    /\ UNCHANGED <<tunnels, chans, now, connVars>>
    /\ UNCHANGED <<agentVars, wireVars, historyVars, tunnelRef, outcome, written>>
    /\ UNCHANGED eventVars
    /\ UNCHANGED done
    /\ UNCHANGED pureVars
    /\ UNCHANGED lockVars

\* lines 208-213: reading the public request's body fails: 500
ServeHTTPReadBodyFail(p) ==
    /\ pc[p] = "forward"
    /\ pc' = [pc EXCEPT ![p] = "deferred"]
    /\ outcome' = [outcome EXCEPT ![p] = "readfail"]
    /\ written' = [written EXCEPT ![p] = StatusInternalServerError]
    /\ UNCHANGED <<gatewayVars, agentVars, wireVars, historyVars, tunnelRef, requestId>>
    /\ UNCHANGED eventVars
    /\ UNCHANGED done
    /\ UNCHANGED pureVars
    /\ UNCHANGED lockVars

\* lines 215-237: the HTTPRequest frame is sent on the tunnel's connection
ServeHTTPSend(p) ==
    /\ pc[p] = "forward"
    /\ GatewaySendCanSucceed(tunnelRef[p])
    /\ GatewaySendHasRoom(tunnelRef[p])
    /\ toAgent' = GatewaySent(tunnelRef[p], HTTPRequest(requestId[p]))
    /\ pc' = [pc EXCEPT ![p] = "wait"]
    /\ UNCHANGED <<gatewayVars, agentVars, toGateway, raws, lost, historyVars>>
    /\ UNCHANGED <<tunnelRef, requestId, outcome, written>>
    /\ UNCHANGED eventVars
    /\ UNCHANGED done
    /\ UNCHANGED pureVars
    /\ UNCHANGED lockVars

\* lines 237-240: the send fails: 500
ServeHTTPSendFail(p) ==
    /\ pc[p] = "forward"
    /\ GatewaySendCanFail(tunnelRef[p])
    /\ pc' = [pc EXCEPT ![p] = "deferred"]
    /\ outcome' = [outcome EXCEPT ![p] = "sendfail"]
    /\ written' = [written EXCEPT ![p] = StatusInternalServerError]
    /\ UNCHANGED <<gatewayVars, agentVars, wireVars, historyVars, tunnelRef, requestId>>
    /\ UNCHANGED eventVars
    /\ UNCHANGED done
    /\ UNCHANGED pureVars
    /\ UNCHANGED lockVars

\* lines 244-341: a response is received from the channel and relayed
ServeHTTPResponse(p) ==
    /\ pc[p] = "wait"
    /\ chans[p].buf # <<>>
    /\ chans' = [chans EXCEPT ![p].buf = <<>>]
    /\ pc' = [pc EXCEPT ![p] = "deferred"]
    /\ outcome' = [outcome EXCEPT ![p] = "response"]
    /\ written' = [written EXCEPT ![p] = Head(chans[p].buf).StatusCode]
    /\ UNCHANGED <<tunnels, pendingRequests, now, connVars>>
    /\ UNCHANGED <<agentVars, wireVars, historyVars, tunnelRef, requestId>>
    /\ UNCHANGED eventVars
    /\ UNCHANGED done
    /\ UNCHANGED pureVars
    /\ UNCHANGED lockVars

\* lines 244-248: the channel was closed: the receive yields nil and
\* resp.StatusCode panics; nothing is written, the deferred cleanup runs
ServeHTTPNil(p) ==
    /\ pc[p] = "wait"
    /\ chans[p].buf = <<>>
    /\ chans[p].closed
    /\ pc' = [pc EXCEPT ![p] = "deferred"]
    /\ outcome' = [outcome EXCEPT ![p] = "nil"]
    /\ UNCHANGED <<gatewayVars, agentVars, wireVars, historyVars, tunnelRef, requestId, written>>
    /\ UNCHANGED eventVars
    /\ UNCHANGED done
    /\ UNCHANGED pureVars
    /\ UNCHANGED lockVars

\* a deadline that also drops the tunnels of the call's connection
ServeHTTPTimeoutDropsTunnels(p) ==
    /\ pc[p] = "wait"
    /\ pc' = [pc EXCEPT ![p] = "deferred"]
    /\ outcome' = [outcome EXCEPT ![p] = "timeout"]
    /\ written' = [written EXCEPT ![p] = StatusGatewayTimeout]
    /\ tunnels' = [id \in {x \in DOMAIN tunnels : tunnels[x].WSConn # tunnelRef[p]} |-> tunnels[id]]
    /\ UNCHANGED <<pendingRequests, chans, now, connVars>>
    /\ UNCHANGED <<agentVars, wireVars, historyVars, tunnelRef, requestId>>
    /\ UNCHANGED eventVars
    /\ UNCHANGED done
    /\ UNCHANGED pureVars
    /\ UNCHANGED lockVars

\* lines 343-345: the 30 s timer fires: 504
ServeHTTPTimeout(p) ==
    /\ pc[p] = "wait"
    /\ pc' = [pc EXCEPT ![p] = "deferred"]
    /\ outcome' = [outcome EXCEPT ![p] = "timeout"]
    /\ written' = [written EXCEPT ![p] = StatusGatewayTimeout]
    /\ UNCHANGED <<gatewayVars, agentVars, wireVars, historyVars, tunnelRef, requestId>>
    /\ UNCHANGED eventVars
    /\ UNCHANGED done
    /\ UNCHANGED pureVars
    /\ UNCHANGED lockVars

\* a deferred cleanup that leaves the slot in the map
KeepSlot(pending, rid) == pending

\* the pending map after the deferred delete of lines 195-199
DeferredDelete(pending, rid) == MapDelete(pending, rid)

\* lines 195-199: the deferred cleanup
ServeHTTPDeferred(p) ==
    /\ pc[p] = "deferred"
    /\ pendingRequests' = DeferredDelete(pendingRequests, requestId[p])
    /\ pc' = [pc EXCEPT ![p] = "done"]
    \* the call returns: its locals and its channel are garbage
    /\ tunnelRef' = [tunnelRef EXCEPT ![p] = 0]
    /\ chans' = [chans EXCEPT ![p] = NewChan]
    /\ UNCHANGED <<tunnels, now, connVars>>
    /\ UNCHANGED <<agentVars, wireVars, historyVars, requestId, outcome, written>>
    /\ UNCHANGED eventVars
    /\ UNCHANGED done
    /\ UNCHANGED pureVars
    /\ UNCHANGED lockVars


(***************************************************************************)
(* TunnelHandler.HandleWS / handleWS, one handler per connection c.        *)
(***************************************************************************)
\* tokenService.ValidateToken, the external validator
ValidateToken(tok) == tok = "good"

\* an authentication that lets every upgrade request in
AcceptAnyToken(tok) == ""

\* authenticateWebSocket: "" when the token is accepted, else the reason
authenticateWebSocket(tok) ==
    IF tok = "" THEN "no token provided"
    ELSE IF ~ValidateToken(tok) THEN "invalid token"
    ELSE ""

\* HandleWS lines 125-140: authentication fails; one Error frame, then Close
HandleWSReject(c) ==
    /\ srv[c] = "auth"
    /\ authenticateWebSocket(token[c]) # ""
    /\ GatewaySendHasRoom(c)
    /\ toAgent' = GatewaySent(c, ErrorMessage(authenticateWebSocket(token[c])))
    /\ srv' = [srv EXCEPT ![c] = "closed"]
    /\ srvClosed' = [srvClosed EXCEPT ![c] = TRUE]
    /\ UNCHANGED <<registryVars, now, srvReply, agentVars, toGateway, raws, lost>>
    /\ UNCHANGED <<requestVars, historyVars>>
    /\ UNCHANGED eventVars
    /\ UNCHANGED done
    /\ UNCHANGED pureVars
    /\ UNCHANGED lockVars

\* HandleWS line 142: authentication succeeds, the frame loop starts
HandleWSAccept(c) ==
    /\ srv[c] = "auth"
    /\ authenticateWebSocket(token[c]) = ""
    /\ srv' = [srv EXCEPT ![c] = "loop"]
    /\ UNCHANGED <<registryVars, now, srvReply, srvClosed, agentVars, wireVars>>
    /\ UNCHANGED <<requestVars, historyVars>>
    /\ UNCHANGED eventVars
    /\ UNCHANGED done
    /\ UNCHANGED pureVars
    /\ UNCHANGED lockVars

\* the loop of handleWS has a frame to read
CanReceive(c, type) ==
    /\ srv[c] = "loop"
    /\ toGateway[c] # <<>>
    /\ Head(toGateway[c]).Type = type

Received(c) == [toGateway EXCEPT ![c] = Tail(@)]

\* lines 54-67: Receive fails (the peer closed the connection)
handleWSReceiveError(c) ==
    /\ srv[c] = "loop"
    /\ toGateway[c] = <<>>
    /\ cliClosed[c] \/ lost[c]
    /\ srv' = [srv EXCEPT ![c] = "cleanup"]
    /\ UNCHANGED <<registryVars, now, srvReply, srvClosed, agentVars, wireVars>>
    /\ UNCHANGED <<requestVars, historyVars>>
    /\ UNCHANGED eventVars
    /\ UNCHANGED done
    /\ UNCHANGED pureVars
    /\ UNCHANGED lockVars

\* a Ping that is read and not answered
handleWSPingUnanswered(c) ==
    /\ CanReceive(c, "ping")
    /\ toGateway' = Received(c)
    /\ UNCHANGED <<gatewayVars, agentVars, toAgent, raws, lost, requestVars, historyVars>>
    /\ UNCHANGED eventVars
    /\ UNCHANGED done
    /\ UNCHANGED pureVars
    /\ UNCHANGED lockVars

\* lines 85-90: Ping, answered with Pong
handleWSPing(c) ==
    /\ CanReceive(c, "ping")
    /\ GatewaySendCanSucceed(c)
    /\ GatewaySendHasRoom(c)
    /\ toGateway' = Received(c)
    /\ toAgent' = GatewaySent(c, PongMessage)
    /\ pongs' = [pongs EXCEPT ![c] = @ + 1]
    /\ UNCHANGED <<gatewayVars, agentVars, raws, lost, requestVars>>
    /\ UNCHANGED <<delivered, lastResp, orphaned, cleaned>>
    /\ UNCHANGED eventVars
    /\ UNCHANGED done
    /\ UNCHANGED pureVars
    /\ UNCHANGED lockVars

\* lines 87-90: the Pong cannot be sent; the handler returns
handleWSPingSendFail(c) ==
    /\ CanReceive(c, "ping")
    /\ GatewaySendCanFail(c)
    /\ toGateway' = Received(c)
    /\ srv' = [srv EXCEPT ![c] = "cleanup"]
    /\ UNCHANGED <<registryVars, now, srvReply, srvClosed, agentVars, toAgent, raws, lost>>
    /\ UNCHANGED <<requestVars, historyVars>>
    /\ UNCHANGED eventVars
    /\ UNCHANGED done
    /\ UNCHANGED pureVars
    /\ UNCHANGED lockVars

\* lines 92-93: Pong, only logged
handleWSPong(c) ==
    /\ CanReceive(c, "pong")
    /\ toGateway' = Received(c)
    /\ UNCHANGED <<gatewayVars, agentVars, toAgent, raws, lost, requestVars, historyVars>>
    /\ UNCHANGED eventVars
    /\ UNCHANGED done
    /\ UNCHANGED pureVars
    /\ UNCHANGED lockVars

\* lines 110-117: the Tunnel made for a TunnelRequest
NewTunnelEntry(id, port, c, t) ==
    [ID |-> id, LocalPort |-> port, WSConn |-> c, Path |-> SubdomainURL(id),
     LastActivity |-> t, Created |-> t]

\* lines 119-121: th.tunnels[id] = t
RegisterTunnel(tns, id, t) == MapSet(tns, id, t)

\* lines 95-121: TunnelRequest; generateID draws id, the Tunnel is stored
handleWSTunnelReq(c, id) ==
    /\ CanReceive(c, "tunnel_req")
    /\ toGateway' = Received(c)
    /\ tunnels' = RegisterTunnel(tunnels, id,
                     NewTunnelEntry(id, Head(toGateway[c]).Payload.LocalPort, c, now))
    /\ srvReply' = [srvReply EXCEPT ![c] = [URL |-> SubdomainURL(id)]]
    /\ srv' = [srv EXCEPT ![c] = "reply"]
    /\ UNCHANGED <<pendingRequests, chans, now, srvClosed, agentVars, toAgent, raws, lost>>
    /\ UNCHANGED <<requestVars, historyVars>>
    /\ UNCHANGED eventVars
    /\ UNCHANGED done
    /\ UNCHANGED pureVars
    /\ UNCHANGED lockVars

\* lines 123-134: the TunnelResponse is sent
handleWSTunnelResp(c) ==
    /\ srv[c] = "reply"
    /\ GatewaySendCanSucceed(c)
    /\ GatewaySendHasRoom(c)
    /\ toAgent' = GatewaySent(c, TunnelResponse(srvReply[c].URL))
    /\ srv' = [srv EXCEPT ![c] = "loop"]
    /\ srvReply' = [srvReply EXCEPT ![c] = NoPayload]
    /\ UNCHANGED <<registryVars, now, srvClosed, agentVars, toGateway, raws, lost>>
    /\ UNCHANGED <<requestVars, historyVars>>
    /\ UNCHANGED eventVars
    /\ UNCHANGED done
    /\ UNCHANGED pureVars
    /\ UNCHANGED lockVars

\* lines 130-132: the TunnelResponse cannot be sent; only logged
handleWSTunnelRespFail(c) ==
    /\ srv[c] = "reply"
    /\ GatewaySendCanFail(c)
    /\ srv' = [srv EXCEPT ![c] = "loop"]
    /\ srvReply' = [srvReply EXCEPT ![c] = NoPayload]
    /\ UNCHANGED <<registryVars, now, srvClosed, agentVars, wireVars>>
    /\ UNCHANGED <<requestVars, historyVars>>
    /\ UNCHANGED eventVars
    /\ UNCHANGED done
    /\ UNCHANGED pureVars
    /\ UNCHANGED lockVars

\* an update that forgets the connection's tunnels
ForgetTunnels(tns, c, t) ==
    [id \in {x \in DOMAIN tns : tns[x].WSConn # c} |-> tns[id]]

\* lines 73-79: LastActivity of the connection's tunnels
TouchTunnels(tns, c, t) ==
    [id \in DOMAIN tns |->
        IF tns[id].WSConn = c THEN [tns[id] EXCEPT !.LastActivity = t] ELSE tns[id]]

\* a delivery that hands a response without a slot to every waiting call
DeliverToAnyone(pending, rid) ==
    IF rid \in DOMAIN pending THEN {pending[rid]} ELSE {pending[r] : r \in DOMAIN pending}

\* line 146: the channels a response with request id rid is sent on
DeliverTo(pending, rid) ==
    IF rid \in DOMAIN pending THEN {pending[rid]} ELSE {}

\* a delivery that leaves the slot in the map
KeepPending(pending, rid) == pending

\* line 148: the pending map after the delivery
DeliverRemove(pending, rid) == MapDelete(pending, rid)

\* capacity of the response channel, line 187
ChanCap == 1

\* lines 69-82 and 136-150: HTTPResponse
handleWSHTTPResponse(c) ==
    /\ CanReceive(c, "http_response")
    /\ LET resp == Head(toGateway[c]).Payload
           to == DeliverTo(pendingRequests, resp.RequestId)
       IN /\ \A p \in to : Len(chans[p].buf) < ChanCap /\ ~chans[p].closed
          /\ chans' = [p \in Requests |->
                          IF p \in to THEN [chans[p] EXCEPT !.buf = Append(@, resp)]
                          ELSE chans[p]]
          /\ pendingRequests' = IF to = {} THEN pendingRequests
                                ELSE DeliverRemove(pendingRequests, resp.RequestId)
          /\ delivered' = [p \in Requests |->
                              IF p \in to THEN Append(delivered[p], resp.RequestId)
                              ELSE delivered[p]]
          /\ lastResp' = [kind |-> IF to = {} THEN "dropped" ELSE "delivered",
                          rid |-> resp.RequestId]
    /\ tunnels' = TouchTunnels(tunnels, c, now)
    /\ toGateway' = Received(c)
    /\ UNCHANGED <<now, connVars, agentVars, toAgent, raws, lost, requestVars, orphaned, cleaned, pongs>>
    /\ UNCHANGED eventVars
    /\ UNCHANGED done
    /\ UNCHANGED pureVars
    /\ UNCHANGED lockVars

\* lines 152-153: any other frame kind is logged and skipped
handleWSDefault(c) ==
    /\ srv[c] = "loop"
    /\ toGateway[c] # <<>>
    /\ Head(toGateway[c]).Type \in {"error", "http_request", "tunnel_resp"}
    /\ toGateway' = Received(c)
    /\ UNCHANGED <<gatewayVars, agentVars, toAgent, raws, lost, requestVars, historyVars>>
    /\ UNCHANGED eventVars
    /\ UNCHANGED done
    /\ UNCHANGED pureVars
    /\ UNCHANGED lockVars

\* a cleanup that finds at most one tunnel of connection c
OneTunnelOf(tns, c) ==
    LET own == {id \in DOMAIN tns : tns[id].WSConn = c}
    IN IF own = {} THEN {} ELSE {CHOOSE id \in own : TRUE}

\* line 35: the tunnels of connection c
TunnelsOf(tns, c) == {id \in DOMAIN tns : tns[id].WSConn = c}

\* lines 41-46: the pending requests cleaned up with the tunnels ids
SlotsOf(pending, ids) ==
    {reqID \in DOMAIN pending : \E id \in ids : HasPrefix(reqID, id)}

\* close(ch) for every slot in rids
CloseChans(chs, pending, rids) ==
    [p \in Requests |->
        IF \E r \in rids : pending[r] = p THEN [chs[p] EXCEPT !.closed = TRUE]
        ELSE chs[p]]

\* lines 31-50: the deferred cleanup of handleWS; the connection is closed
\* when the handler returns
handleWSCleanup(c) ==
    /\ srv[c] = "cleanup"
    /\ LET ids == TunnelsOf(tunnels, c)
           rids == SlotsOf(pendingRequests, ids)
       IN /\ tunnels' = MapDeleteAll(tunnels, ids)
          /\ chans' = CloseChans(chans, pendingRequests, rids)
          /\ pendingRequests' = MapDeleteAll(pendingRequests, rids)
    /\ orphaned' = [p \in Requests |->
                       \/ orphaned[p]
                       \/ /\ pc[p] = "wait"
                          /\ tunnelRef[p] = c
                          /\ chans[p].buf = <<>>]
    /\ cleaned' = [cleaned EXCEPT ![c] = Cardinality(TunnelsOf(tunnels, c))]
    /\ srv' = [srv EXCEPT ![c] = "closed"]
    /\ srvClosed' = [srvClosed EXCEPT ![c] = TRUE]
    /\ toGateway' = [toGateway EXCEPT ![c] = <<>>]
    /\ UNCHANGED <<now, srvReply, agentVars, toAgent, raws, lost, requestVars>>
    /\ UNCHANGED <<delivered, lastResp, pongs>>
    /\ UNCHANGED eventVars
    /\ UNCHANGED done
    /\ UNCHANGED pureVars
    /\ UNCHANGED lockVars

(***************************************************************************)
(* cleanupLoop / cleanupDeadConnections: the sweeper.                      *)
(***************************************************************************)
\* lines 200-220: one sweep. dead are the tunnels whose probe Ping could not
\* be sent; every other tunnel's connection is sent one Ping
cleanupDeadConnections(dead) ==
    /\ dead \subseteq DOMAIN tunnels
    /\ \A id \in dead : GatewaySendCanFail(tunnels[id].WSConn)
    /\ \A id \in DOMAIN tunnels \ dead :
          /\ GatewaySendCanSucceed(tunnels[id].WSConn)
          /\ GatewaySendHasRoom(tunnels[id].WSConn)
          /\ \A other \in DOMAIN tunnels \ dead :
                tunnels[other].WSConn = tunnels[id].WSConn /\ other # id
                   => cliClosed[tunnels[id].WSConn] \/ lost[tunnels[id].WSConn]
                        \/ cli[tunnels[id].WSConn] = "raw"
    /\ LET rids == SlotsOf(pendingRequests, dead)
           pinged == {tunnels[id].WSConn : id \in DOMAIN tunnels \ dead}
       IN /\ tunnels' = MapDeleteAll(tunnels, dead)
          /\ chans' = CloseChans(chans, pendingRequests, rids)
          /\ pendingRequests' = MapDeleteAll(pendingRequests, rids)
          /\ toAgent' = [c \in DOMAIN toAgent |->
                            IF c \in pinged THEN GatewaySent(c, PingMessage)[c]
                            ELSE toAgent[c]]
    /\ UNCHANGED <<now, connVars, agentVars, toGateway, raws, lost, requestVars, historyVars>>
    /\ UNCHANGED eventVars
    /\ UNCHANGED pureVars
    /\ UNCHANGED lockVars

\* cleanupLoop lines 180-192: a tick of the sweeper, until th.done is closed
cleanupLoop(dead) ==
    /\ ~done
    /\ cleanupDeadConnections(dead)
    /\ UNCHANGED done

\* Shutdown, part_016 lines 350-353: th.done is closed and one more sweep is
\* made (a second call would close the closed channel and panic)
Shutdown(dead) ==
    /\ ~done
    /\ done' = TRUE
    /\ cleanupDeadConnections(dead)

(***************************************************************************)
(* The agent: manager.NewTunnel and manager.handleMessages, one tunnel     *)
(* (and one connection) per call of NewTunnel.                             *)
(***************************************************************************)
\* NewTunnel lines 72-90: dial with the configured token on the upgrade
NewTunnelDial(c, tok) ==
    /\ cli[c] = "init"
    /\ cli' = [cli EXCEPT ![c] = "dialed"]
    /\ token' = [token EXCEPT ![c] = tok]
    /\ srv' = [srv EXCEPT ![c] = "auth"]
    /\ UNCHANGED <<registryVars, now, srvReply, srvClosed, wireVars>>
    /\ UNCHANGED <<cliClosed, calls, agentTunnels, agentUrl, agentErr, requestVars, historyVars>>
    /\ UNCHANGED eventVars
    /\ UNCHANGED done
    /\ UNCHANGED pureVars
    /\ UNCHANGED lockVars

\* NewTunnel lines 92-101: the TunnelRequest is sent
NewTunnelRequest(c, port) ==
    /\ cli[c] = "dialed"
    /\ AgentSendCanSucceed(c)
    /\ AgentSendHasRoom(c)
    /\ toGateway' = AgentSent(c, TunnelRequest(port))
    /\ cli' = [cli EXCEPT ![c] = "await"]
    /\ UNCHANGED <<gatewayVars, toAgent, raws, lost, requestVars, historyVars>>
    /\ UNCHANGED <<cliClosed, token, calls, agentTunnels, agentUrl, agentErr>>
    /\ UNCHANGED eventVars
    /\ UNCHANGED done
    /\ UNCHANGED pureVars
    /\ UNCHANGED lockVars

\* NewTunnel lines 96-101: the TunnelRequest cannot be sent
NewTunnelRequestFail(c) ==
    /\ cli[c] = "dialed"
    /\ AgentSendCanFail(c)
    /\ cli' = [cli EXCEPT ![c] = "failed"]
    /\ UNCHANGED <<gatewayVars, wireVars, requestVars, historyVars>>
    /\ UNCHANGED <<cliClosed, token, calls, agentTunnels, agentUrl>>
    /\ agentErr' = [agentErr EXCEPT ![c] = [kind |-> "failed to send tunnel request", reason |-> ""]]
    /\ UNCHANGED eventVars
    /\ UNCHANGED done
    /\ UNCHANGED pureVars
    /\ UNCHANGED lockVars

\* the agent has a frame to read
AgentCanReceive(c) == ~cliClosed[c] /\ toAgent[c] # <<>>
AgentReceiveFails(c) == cliClosed[c] \/ (toAgent[c] = <<>> /\ (srvClosed[c] \/ lost[c]))
AgentReceived(c) == [toAgent EXCEPT ![c] = Tail(@)]

\* NewTunnel lines 126-134: the URL decoded from the first frame's payload
TunnelURL(msg) == IF msg.Type = "tunnel_resp" THEN msg.Payload.URL ELSE <<>>

\* NewTunnel lines 104-149: the first frame is not an Error; the tunnel is
\* stored under its URL and the dispatch loop starts
NewTunnelAccepted(c) ==
    /\ cli[c] = "await"
    /\ AgentCanReceive(c)
    /\ Head(toAgent[c]).Type # "error"
    /\ toAgent' = AgentReceived(c)
    /\ agentUrl' = [agentUrl EXCEPT ![c] = TunnelURL(Head(toAgent[c]))]
    /\ agentTunnels' = MapSet(agentTunnels, TunnelURL(Head(toAgent[c])), c)
    /\ cli' = [cli EXCEPT ![c] = "loop"]
    /\ UNCHANGED <<gatewayVars, toGateway, raws, lost, requestVars, historyVars>>
    /\ UNCHANGED <<cliClosed, token, calls, agentErr>>
    /\ UNCHANGED eventVars
    /\ UNCHANGED done
    /\ UNCHANGED pureVars
    /\ UNCHANGED lockVars

\* an error that leaves the gateway's reason out
UnexplainedError(msg) == [kind |-> "failed to create tunnel", reason |-> ""]

\* NewTunnel lines 113-123: the error made of the Error frame's payload
CreateTunnelError(msg) == [kind |-> "failed to create tunnel", reason |-> msg.Payload.error]

\* NewTunnel lines 113-123: the first frame is an Error
NewTunnelRejected(c) ==
    /\ cli[c] = "await"
    /\ AgentCanReceive(c)
    /\ Head(toAgent[c]).Type = "error"
    /\ toAgent' = AgentReceived(c)
    /\ cli' = [cli EXCEPT ![c] = "failed"]
    /\ UNCHANGED <<gatewayVars, toGateway, raws, lost, requestVars, historyVars>>
    /\ UNCHANGED <<cliClosed, token, calls, agentTunnels, agentUrl>>
    /\ agentErr' = [agentErr EXCEPT ![c] = CreateTunnelError(Head(toAgent[c]))]
    /\ UNCHANGED eventVars
    /\ UNCHANGED done
    /\ UNCHANGED pureVars
    /\ UNCHANGED lockVars

\* NewTunnel lines 105-107: the first Receive fails
NewTunnelReceiveFail(c) ==
    /\ cli[c] = "await"
    /\ AgentReceiveFails(c)
    /\ cli' = [cli EXCEPT ![c] = "failed"]
    /\ UNCHANGED <<gatewayVars, wireVars, requestVars, historyVars>>
    /\ UNCHANGED <<cliClosed, token, calls, agentTunnels, agentUrl>>
    /\ agentErr' = [agentErr EXCEPT ![c] = [kind |-> "failed to receive tunnel response", reason |-> ""]]
    /\ UNCHANGED eventVars
    /\ UNCHANGED done
    /\ UNCHANGED pureVars
    /\ UNCHANGED lockVars

\* handleMessages lines 154-160: the deferred cleanup
AgentCleanup(c) ==
    /\ cli' = [cli EXCEPT ![c] = "done"]
    /\ cliClosed' = [cliClosed EXCEPT ![c] = TRUE]
    /\ agentTunnels' = MapDelete(agentTunnels, agentUrl[c])

\* lines 165-174, 192-197, 336-349: c.events is called if it is not nil
Notify(ev) == IF events THEN Append(received, ev) ELSE received

\* lines 166-173: the event of a failed Receive; its Type is left unset
LostEvent(c) ==
    [Type |-> "", TunnelID |-> agentUrl[c],
     Error |-> "TunnelManager lost connection to server", ConnectionFailed |-> TRUE]

\* lines 182-197: the event of an Error frame
ErrorEvent(msg) == [Type |-> "error", Error |-> msg.Payload.error]

\* handleMessages lines 164-178: Receive fails; the handler is told and the
\* loop ends
handleMessagesReceiveError(c) ==
    /\ cli[c] = "loop"
    /\ AgentReceiveFails(c)
    /\ AgentCleanup(c)
    /\ toAgent' = [toAgent EXCEPT ![c] = <<>>]
    /\ received' = Notify(LostEvent(c))
    /\ UNCHANGED <<gatewayVars, toGateway, raws, lost, requestVars, historyVars>>
    /\ UNCHANGED <<token, calls, agentUrl, agentErr>>
    /\ UNCHANGED <<tUrl, httpReq, localResp, events, respSent, step>>
    /\ UNCHANGED done
    /\ UNCHANGED pureVars
    /\ UNCHANGED lockVars

\* a loop that makes the local call itself: it takes the next HTTPRequest only
\* when no earlier call is outstanding
handleMessagesHTTPRequestInline(c) ==
    /\ cli[c] = "loop"
    /\ AgentCanReceive(c)
    /\ Head(toAgent[c]).Type = "http_request"
    /\ \A r \in Ids : calls[c][r] = 0
    /\ toAgent' = AgentReceived(c)
    /\ calls' = [calls EXCEPT ![c][Head(toAgent[c]).Payload.RequestId] = @ + 1]
    /\ UNCHANGED <<gatewayVars, toGateway, raws, lost, requestVars, historyVars>>
    /\ UNCHANGED <<cli, cliClosed, token, agentTunnels, agentUrl, agentErr>>
    /\ UNCHANGED eventVars
    /\ UNCHANGED done
    /\ UNCHANGED pureVars
    /\ UNCHANGED lockVars

\* handleMessages lines 201-218: HTTPRequest; a goroutine is started for it
handleMessagesHTTPRequest(c) ==
    /\ cli[c] = "loop"
    /\ AgentCanReceive(c)
    /\ Head(toAgent[c]).Type = "http_request"
    /\ toAgent' = AgentReceived(c)
    /\ calls' = [calls EXCEPT ![c][Head(toAgent[c]).Payload.RequestId] = @ + 1]
    /\ UNCHANGED <<gatewayVars, toGateway, raws, lost, requestVars, historyVars>>
    /\ UNCHANGED <<cli, cliClosed, token, agentTunnels, agentUrl, agentErr>>
    /\ UNCHANGED eventVars
    /\ UNCHANGED done
    /\ UNCHANGED pureVars
    /\ UNCHANGED lockVars

\* line 317: the request id put on the response to request id rid
ResponseRequestId(rid) == rid

\* lines 219-324: the local call succeeds and its HTTPResponse is sent
LocalCallResponse(c, rid, code) ==
    /\ calls[c][rid] > 0
    /\ AgentSendCanSucceed(c)
    /\ AgentSendHasRoom(c)
    /\ toGateway' = AgentSent(c, HTTPResponse(code, ResponseRequestId(rid)))
    /\ calls' = [calls EXCEPT ![c][rid] = @ - 1]
    /\ UNCHANGED <<gatewayVars, toAgent, raws, lost, requestVars, historyVars>>
    /\ UNCHANGED <<cli, cliClosed, token, agentTunnels, agentUrl, agentErr>>
    /\ UNCHANGED eventVars
    /\ UNCHANGED done
    /\ UNCHANGED pureVars
    /\ UNCHANGED lockVars

\* a failed local call that ends the agent's loop and drops its tunnel
LocalCallFailEndsLoop(c, rid) ==
    /\ calls[c][rid] > 0
    /\ calls' = [calls EXCEPT ![c][rid] = @ - 1]
    /\ AgentCleanup(c)
    /\ UNCHANGED <<gatewayVars, wireVars, requestVars, historyVars>>
    /\ UNCHANGED <<token, agentUrl, agentErr>>
    /\ UNCHANGED eventVars
    /\ UNCHANGED done
    /\ UNCHANGED pureVars
    /\ UNCHANGED lockVars

\* lines 282-293 and 321-324: the local call fails, or the response cannot
\* be sent; no response reaches the gateway
LocalCallNoResponse(c, rid) ==
    /\ calls[c][rid] > 0
    /\ calls' = [calls EXCEPT ![c][rid] = @ - 1]
    /\ UNCHANGED <<gatewayVars, wireVars, requestVars, historyVars>>
    /\ UNCHANGED <<cli, cliClosed, token, agentTunnels, agentUrl, agentErr>>
    /\ UNCHANGED eventVars
    /\ UNCHANGED done
    /\ UNCHANGED pureVars
    /\ UNCHANGED lockVars

\* handleMessages lines 352-357: Ping, answered with Pong
handleMessagesPing(c) ==
    /\ cli[c] = "loop"
    /\ AgentCanReceive(c)
    /\ Head(toAgent[c]).Type = "ping"
    /\ AgentSendCanSucceed(c)
    /\ AgentSendHasRoom(c)
    /\ toAgent' = AgentReceived(c)
    /\ toGateway' = AgentSent(c, PongMessage)
    /\ UNCHANGED <<gatewayVars, raws, lost, agentVars, requestVars, historyVars>>
    /\ UNCHANGED eventVars
    /\ UNCHANGED done
    /\ UNCHANGED pureVars
    /\ UNCHANGED lockVars

\* handleMessages lines 354-357: the Pong cannot be sent; the loop ends
handleMessagesPingSendFail(c) ==
    /\ cli[c] = "loop"
    /\ AgentCanReceive(c)
    /\ Head(toAgent[c]).Type = "ping"
    /\ AgentSendCanFail(c)
    /\ AgentCleanup(c)
    /\ toAgent' = [toAgent EXCEPT ![c] = <<>>]
    /\ UNCHANGED <<gatewayVars, toGateway, raws, lost, requestVars, historyVars>>
    /\ UNCHANGED <<token, calls, agentUrl, agentErr>>
    /\ UNCHANGED eventVars
    /\ UNCHANGED done
    /\ UNCHANGED pureVars
    /\ UNCHANGED lockVars

\* handleMessages lines 180-199: an Error frame is reported, and any frame
\* kind without a case is skipped; the loop goes on
handleMessagesOther(c) ==
    /\ cli[c] = "loop"
    /\ AgentCanReceive(c)
    /\ Head(toAgent[c]).Type \in {"error", "pong", "tunnel_resp", "tunnel_req", "http_response"}
    /\ toAgent' = AgentReceived(c)
    /\ received' = IF Head(toAgent[c]).Type = "error"
                   THEN Notify(ErrorEvent(Head(toAgent[c])))
                   ELSE received
    /\ UNCHANGED <<gatewayVars, toGateway, raws, lost, agentVars, requestVars, historyVars>>
    /\ UNCHANGED <<tUrl, httpReq, localResp, events, respSent, step>>
    /\ UNCHANGED done
    /\ UNCHANGED pureVars
    /\ UNCHANGED lockVars

\* tunnel.Close lines 396-402, called by the user or by manager.Close
TunnelClose(c) ==
    /\ cli[c] = "loop"
    /\ ~cliClosed[c]
    /\ cliClosed' = [cliClosed EXCEPT ![c] = TRUE]
    /\ toAgent' = [toAgent EXCEPT ![c] = <<>>]
    /\ UNCHANGED <<gatewayVars, toGateway, raws, lost, requestVars, historyVars>>
    /\ UNCHANGED <<cli, token, calls, agentTunnels, agentUrl, agentErr>>
    /\ UNCHANGED eventVars
    /\ UNCHANGED done
    /\ UNCHANGED pureVars
    /\ UNCHANGED lockVars

(***************************************************************************)
(* A raw websocket peer, as the gateway's tests use: it dials, writes any  *)
(* frames, reads and discards at once what it is sent, and closes.         *)
(***************************************************************************)
RawFrames ==
    {PingMessage, PongMessage, ErrorMessage("peer")}
      \cup {TunnelRequest(port) : port \in Ports}
      \cup {HTTPResponse(StatusOK, rid) : rid \in Ids}
      \cup {HTTPRequest(<<>>), TunnelResponse(<<>>)}

RawDial(c, tok) ==
    /\ cli[c] = "init"
    /\ cli' = [cli EXCEPT ![c] = "raw"]
    /\ token' = [token EXCEPT ![c] = tok]
    /\ srv' = [srv EXCEPT ![c] = "auth"]
    /\ UNCHANGED <<registryVars, now, srvReply, srvClosed, wireVars>>
    /\ UNCHANGED <<cliClosed, calls, agentTunnels, agentUrl, agentErr, requestVars, historyVars>>
    /\ UNCHANGED eventVars
    /\ UNCHANGED done
    /\ UNCHANGED pureVars
    /\ UNCHANGED lockVars

RawSend(c, msg) ==
    /\ cli[c] = "raw"
    /\ ~cliClosed[c]
    /\ raws < MaxRaw
    /\ AgentSendHasRoom(c)
    /\ toGateway' = AgentSent(c, msg)
    /\ raws' = raws + 1
    /\ UNCHANGED <<gatewayVars, toAgent, lost, agentVars, requestVars, historyVars>>
    /\ UNCHANGED eventVars
    /\ UNCHANGED done
    /\ UNCHANGED pureVars
    /\ UNCHANGED lockVars

RawClose(c) ==
    /\ cli[c] = "raw"
    /\ ~cliClosed[c]
    /\ cliClosed' = [cliClosed EXCEPT ![c] = TRUE]
    /\ toAgent' = [toAgent EXCEPT ![c] = <<>>]
    /\ UNCHANGED <<gatewayVars, toGateway, raws, lost, requestVars, historyVars>>
    /\ UNCHANGED <<cli, token, calls, agentTunnels, agentUrl, agentErr>>
    /\ UNCHANGED eventVars
    /\ UNCHANGED done
    /\ UNCHANGED pureVars
    /\ UNCHANGED lockVars

\* the network path between the gateway and an agent fails (for a raw peer
\* RawClose shows the gateway the same)
ConnectionLost(c) ==
    /\ cli[c] \in {"dialed", "await", "loop"}
    /\ ~cliClosed[c]
    /\ ~srvClosed[c]
    /\ ~lost[c]
    /\ lost' = [lost EXCEPT ![c] = TRUE]
    /\ UNCHANGED <<gatewayVars, agentVars, toAgent, toGateway, raws, requestVars, historyVars>>
    /\ UNCHANGED eventVars
    /\ UNCHANGED done
    /\ UNCHANGED pureVars
    /\ UNCHANGED lockVars

(***************************************************************************)
(* The specification.                                                      *)
(***************************************************************************)
Next ==
    \/ \E p \in Requests, url \in PublicPaths : ServeHTTPNotFound(p, url)
    \/ \E p \in Requests, url \in PublicPaths : ServeHTTPLookup(p, url)
    \/ \E p \in Requests, rid \in Ids : ServeHTTPRegister(p, rid)
    \/ \E p \in Requests : ServeHTTPReadBodyFail(p)
    \/ \E p \in Requests : ServeHTTPSend(p)
    \/ \E p \in Requests : ServeHTTPSendFail(p)
    \/ \E p \in Requests : ServeHTTPResponse(p)
    \/ \E p \in Requests : ServeHTTPNil(p)
    \/ \E p \in Requests : ServeHTTPTimeout(p)
    \/ \E p \in Requests : ServeHTTPDeferred(p)
    \/ \E c \in Conns : HandleWSReject(c)
    \/ \E c \in Conns : HandleWSAccept(c)
    \/ \E c \in Conns : handleWSReceiveError(c)
    \/ \E c \in Conns : handleWSPing(c)
    \/ \E c \in Conns : handleWSPingSendFail(c)
    \/ \E c \in Conns : handleWSPong(c)
    \/ \E c \in Conns, id \in Ids : handleWSTunnelReq(c, id)
    \/ \E c \in Conns : handleWSTunnelResp(c)
    \/ \E c \in Conns : handleWSTunnelRespFail(c)
    \/ \E c \in Conns : handleWSHTTPResponse(c)
    \/ \E c \in Conns : handleWSDefault(c)
    \/ \E c \in Conns : handleWSCleanup(c)
    \/ \E dead \in SUBSET Ids : cleanupLoop(dead)
    \/ \E c \in Conns, tok \in Tokens : NewTunnelDial(c, tok)
    \/ \E c \in Conns, port \in Ports : NewTunnelRequest(c, port)
    \/ \E c \in Conns : NewTunnelRequestFail(c)
    \/ \E c \in Conns : NewTunnelAccepted(c)
    \/ \E c \in Conns : NewTunnelRejected(c)
    \/ \E c \in Conns : NewTunnelReceiveFail(c)
    \/ \E c \in Conns : handleMessagesReceiveError(c)
    \/ \E c \in Conns : handleMessagesHTTPRequest(c)
    \/ \E c \in Conns, rid \in Ids : LocalCallResponse(c, rid, StatusOK)
    \/ \E c \in Conns, rid \in Ids : LocalCallNoResponse(c, rid)
    \/ \E c \in Conns : handleMessagesPing(c)
    \/ \E c \in Conns : handleMessagesPingSendFail(c)
    \/ \E c \in Conns : handleMessagesOther(c)
    \/ \E c \in Conns : TunnelClose(c)
    \/ \E c \in Conns, tok \in Tokens : RawDial(c, tok)
    \/ \E c \in Conns, msg \in RawFrames : RawSend(c, msg)
    \/ \E c \in Conns : RawClose(c)
    \/ \E c \in Conns : ConnectionLost(c)

Spec == Init /\ [][Next]_vars

\* the gateway serving agents and public requests, without raw peers and
\* without the failures that Shutdown has no part in; and Shutdown
ShutdownNext ==
    \/ \E p \in Requests, url \in PublicPaths : ServeHTTPLookup(p, url)
    \/ \E p \in Requests, rid \in Ids : ServeHTTPRegister(p, rid)
    \/ \E p \in Requests : ServeHTTPSend(p)
    \/ \E p \in Requests : ServeHTTPResponse(p)
    \/ \E p \in Requests : ServeHTTPNil(p)
    \/ \E p \in Requests : ServeHTTPTimeout(p)
    \/ \E p \in Requests : ServeHTTPDeferred(p)
    \/ \E c \in Conns : HandleWSAccept(c)
    \/ \E c \in Conns : handleWSReceiveError(c)
    \/ \E c \in Conns : handleWSPong(c)
    \/ \E c \in Conns, id \in Ids : handleWSTunnelReq(c, id)
    \/ \E c \in Conns : handleWSTunnelResp(c)
    \/ \E c \in Conns : handleWSHTTPResponse(c)
    \/ \E c \in Conns : handleWSCleanup(c)
    \/ \E dead \in SUBSET Ids : cleanupLoop(dead)
    \/ \E c \in Conns : NewTunnelDial(c, "good")
    \/ \E c \in Conns, port \in Ports : NewTunnelRequest(c, port)
    \/ \E c \in Conns : NewTunnelAccepted(c)
    \/ \E c \in Conns : handleMessagesReceiveError(c)
    \/ \E c \in Conns : handleMessagesHTTPRequest(c)
    \/ \E c \in Conns, rid \in Ids : LocalCallResponse(c, rid, StatusOK)
    \/ \E c \in Conns : handleMessagesPing(c)
    \/ \E c \in Conns : ConnectionLost(c)
    \/ \E dead \in SUBSET Ids : Shutdown(dead)

ShutdownSpec == Init /\ [][ShutdownNext]_vars

(***************************************************************************)
(* The request event of one round trip: the tail of the goroutine that     *)
(* handleMessages starts for an HTTPRequest, from the send of the          *)
(* HTTPResponse to the call of the manager's event handler.  The tunnel,   *)
(* the request, the local response and the handler are the inputs.         *)
(***************************************************************************)
Bytes == {"a", "b"}
Nul == "NUL"
Ellipsis == <<".", ".", ".">>
Methods == {"GET", "POST"}
Paths == {"/", "/x"}
LocalStatuses == {StatusOK, 302, 400, StatusNotFound, StatusInternalServerError}

\* response bodies of up to MaxBody bytes
Bodies == UNION {[1..n -> Bytes] : n \in 0..MaxBody}

\* the bytes of io.ReadAll's buffer behind the body: the buffer has room for
\* 512 bytes at least, zeroed unless the reader used it as scratch space
Spares == [1..HintLength -> Bytes \cup {Nul}]

\* body[:n] of a slice whose array goes on with spare behind the body
SliceTo(body, spare, n) ==
    IF n <= Len(body) THEN SubSeq(body, 1, n)
    ELSE body \o SubSeq(spare, 1, n - Len(body))

\* lines 326-333: the error hint of the event
ErrMsg(r) ==
    IF r.StatusCode > 400
    THEN SliceTo(r.Body, r.spare, HintLength)
            \o (IF Len(r.Body) > HintLength THEN Ellipsis ELSE <<>>)
    ELSE <<>>

\* lines 337-348: the event handed to the handler
RequestEvent(url, req, r) ==
    [Type |-> "request", TunnelID |-> url, Method |-> req.Method, Path |-> req.Path,
     Status |-> r.StatusCode, Error |-> ErrMsg(r)]

EventInit ==
    /\ GatewayInit
    /\ tUrl \in {SubdomainURL(id) : id \in Ids}
    /\ httpReq \in [Method : Methods, Path : Paths]
    /\ localResp \in [StatusCode : LocalStatuses, Body : Bodies, spare : Spares]
    /\ events \in BOOLEAN
    /\ respSent = FALSE
    /\ received = <<>>
    /\ step = "send"
    /\ NoCall

\* lines 321-324: the send fails; the goroutine returns
RoundTripSendFail ==
    /\ step = "send"
    /\ step' = "done"
    /\ UNCHANGED <<tUrl, httpReq, localResp, events, respSent, received>>
    /\ UNCHANGED <<gatewayVars, agentVars, wireVars, requestVars, historyVars>>
    /\ UNCHANGED done
    /\ UNCHANGED pureVars
    /\ UNCHANGED lockVars

\* lines 321-349: the response is sent and the handler is called
RoundTripEvent ==
    /\ step = "send"
    /\ events
    /\ respSent' = TRUE
    /\ received' = Append(received, RequestEvent(tUrl, httpReq, localResp))
    /\ step' = "done"
    /\ UNCHANGED <<tUrl, httpReq, localResp, events>>
    /\ UNCHANGED <<gatewayVars, agentVars, wireVars, requestVars, historyVars>>
    /\ UNCHANGED done
    /\ UNCHANGED pureVars
    /\ UNCHANGED lockVars

\* lines 321-336: the response is sent; the manager has no handler
RoundTripNoHandler ==
    /\ step = "send"
    /\ ~events
    /\ respSent' = TRUE
    /\ step' = "done"
    /\ UNCHANGED <<tUrl, httpReq, localResp, events, received>>
    /\ UNCHANGED <<gatewayVars, agentVars, wireVars, requestVars, historyVars>>
    /\ UNCHANGED done
    /\ UNCHANGED pureVars
    /\ UNCHANGED lockVars

EventNext ==
    \/ RoundTripSendFail
    \/ RoundTripEvent
    \/ RoundTripNoHandler

EventSpec == EventInit /\ [][EventNext]_vars

(***************************************************************************)
(* The agent's manager, made with or without an event handler, against any *)
(* server that speaks the protocol: the server accepts the connection,     *)
(* writes any frames, reads what it is sent, and closes.                    *)
(***************************************************************************)
ServerFrames ==
    {PingMessage, PongMessage, ErrorMessage("server")}
      \cup {TunnelResponse(SubdomainURL(id)) : id \in Ids}
      \cup {HTTPRequest(rid) : rid \in Ids}

AgentInit ==
    /\ GatewayInit
    /\ tUrl = <<>>
    /\ httpReq = NoPayload
    /\ localResp = NoPayload
    /\ events \in BOOLEAN
    /\ respSent = FALSE
    /\ received = <<>>
    /\ step = "none"
    /\ NoCall

ServerSend(c, msg) ==
    /\ srv[c] = "auth"
    /\ ~srvClosed[c]
    /\ raws < MaxRaw
    /\ GatewaySendHasRoom(c)
    /\ toAgent' = GatewaySent(c, msg)
    /\ raws' = raws + 1
    /\ UNCHANGED <<gatewayVars, toGateway, lost, agentVars, requestVars, historyVars>>
    /\ UNCHANGED eventVars
    /\ UNCHANGED done
    /\ UNCHANGED pureVars
    /\ UNCHANGED lockVars

ServerReceive(c) ==
    /\ srv[c] = "auth"
    /\ ~srvClosed[c]
    /\ toGateway[c] # <<>>
    /\ toGateway' = [toGateway EXCEPT ![c] = Tail(@)]
    /\ UNCHANGED <<gatewayVars, toAgent, raws, lost, agentVars, requestVars, historyVars>>
    /\ UNCHANGED eventVars
    /\ UNCHANGED done
    /\ UNCHANGED pureVars
    /\ UNCHANGED lockVars

ServerClose(c) ==
    /\ srv[c] = "auth"
    /\ ~srvClosed[c]
    /\ srvClosed' = [srvClosed EXCEPT ![c] = TRUE]
    /\ toGateway' = [toGateway EXCEPT ![c] = <<>>]
    /\ UNCHANGED <<registryVars, now, srv, srvReply, toAgent, raws, lost>>
    /\ UNCHANGED <<agentVars, requestVars, historyVars>>
    /\ UNCHANGED eventVars
    /\ UNCHANGED done
    /\ UNCHANGED pureVars
    /\ UNCHANGED lockVars

AgentNext ==
    \/ \E c \in Conns : NewTunnelDial(c, "good")
    \/ \E c \in Conns, port \in Ports : NewTunnelRequest(c, port)
    \/ \E c \in Conns : NewTunnelRequestFail(c)
    \/ \E c \in Conns : NewTunnelAccepted(c)
    \/ \E c \in Conns : NewTunnelRejected(c)
    \/ \E c \in Conns : NewTunnelReceiveFail(c)
    \/ \E c \in Conns : handleMessagesReceiveError(c)
    \/ \E c \in Conns : handleMessagesHTTPRequest(c)
    \/ \E c \in Conns, rid \in Ids : LocalCallResponse(c, rid, StatusOK)
    \/ \E c \in Conns, rid \in Ids : LocalCallNoResponse(c, rid)
    \/ \E c \in Conns : handleMessagesPing(c)
    \/ \E c \in Conns : handleMessagesPingSendFail(c)
    \/ \E c \in Conns : handleMessagesOther(c)
    \/ \E c \in Conns : TunnelClose(c)
    \/ \E c \in Conns : ConnectionLost(c)
    \/ \E c \in Conns, msg \in ServerFrames : ServerSend(c, msg)
    \/ \E c \in Conns : ServerReceive(c)
    \/ \E c \in Conns : ServerClose(c)

AgentSpec == AgentInit /\ [][AgentNext]_vars

(***************************************************************************)
(* The same, with the call of the event handler for an Error frame taken   *)
(* as what it is: a call made by the dispatch loop itself, which goes on   *)
(* when the handler returns.                                               *)
(***************************************************************************)
\* handleMessages lines 181-198: an Error frame is read and c.events is called
handleMessagesErrorCall(c) ==
    /\ cli[c] = "loop"
    /\ events
    /\ AgentCanReceive(c)
    /\ Head(toAgent[c]).Type = "error"
    /\ toAgent' = AgentReceived(c)
    /\ received' = Append(received, ErrorEvent(Head(toAgent[c])))
    /\ cli' = [cli EXCEPT ![c] = "notify"]
    /\ UNCHANGED <<gatewayVars, toGateway, raws, lost, requestVars, historyVars>>
    /\ UNCHANGED <<cliClosed, token, calls, agentTunnels, agentUrl, agentErr>>
    /\ UNCHANGED <<tUrl, httpReq, localResp, events, respSent, step>>
    /\ UNCHANGED done
    /\ UNCHANGED pureVars
    /\ UNCHANGED lockVars

\* line 199: the handler has returned; the loop reads the next frame
handleMessagesErrorReturn(c) ==
    /\ cli[c] = "notify"
    /\ cli' = [cli EXCEPT ![c] = "loop"]
    /\ UNCHANGED <<gatewayVars, wireVars, requestVars, historyVars>>
    /\ UNCHANGED <<cliClosed, token, calls, agentTunnels, agentUrl, agentErr>>
    /\ UNCHANGED eventVars
    /\ UNCHANGED done
    /\ UNCHANGED pureVars
    /\ UNCHANGED lockVars

ObserverNext ==
    \/ \E c \in Conns : NewTunnelDial(c, "good")
    \/ \E c \in Conns, port \in Ports : NewTunnelRequest(c, port)
    \/ \E c \in Conns : NewTunnelRequestFail(c)
    \/ \E c \in Conns : NewTunnelAccepted(c)
    \/ \E c \in Conns : NewTunnelRejected(c)
    \/ \E c \in Conns : NewTunnelReceiveFail(c)
    \/ \E c \in Conns : handleMessagesReceiveError(c)
    \/ \E c \in Conns : handleMessagesHTTPRequest(c)
    \/ \E c \in Conns, rid \in Ids : LocalCallResponse(c, rid, StatusOK)
    \/ \E c \in Conns, rid \in Ids : LocalCallNoResponse(c, rid)
    \/ \E c \in Conns : handleMessagesPing(c)
    \/ \E c \in Conns : handleMessagesPingSendFail(c)
    \/ \E c \in Conns : handleMessagesOther(c)
    \/ \E c \in Conns : TunnelClose(c)
    \/ \E c \in Conns : ConnectionLost(c)
    \/ \E c \in Conns, msg \in ServerFrames : ServerSend(c, msg)
    \/ \E c \in Conns : ServerReceive(c)
    \/ \E c \in Conns : ServerClose(c)
    \/ \E c \in Conns : handleMessagesErrorCall(c)
    \/ \E c \in Conns : handleMessagesErrorReturn(c)

ObserverSpec == AgentInit /\ [][ObserverNext]_vars

(***************************************************************************)
(* Functions of the gateway on their own: the arguments are drawn in the   *)
(* initial state and the call is one step.                                 *)
(***************************************************************************)
Queries == {"", "q=1"}
\* r.URL.String(): the path, as its segments, and the query
URLs == [path : PublicPaths, query : Queries]
\* r.Host, as strings.Split(host, ".") cuts it
\* a label of a host name: a tunnel id, or a word
IdLabel(id) == [word |-> "", id |-> id]
Word(w) == [word |-> w, id |-> NoId]
LabelText(l) == IF l.word = "" THEN l.id ELSE l.word

Hosts ==
    {<<Word("localhost:8001")>>, <<Word("tunol"), Word("dev")>>,
     <<Word("www"), Word("tunol"), Word("dev")>>}
      \cup {<<IdLabel(id), Word("domain:8001")>> : id \in Ids}
      \cup {<<IdLabel(id), Word("tunol"), Word("dev")>> : id \in Ids}

ExtractArgs == [fn : {"extractTunnelIDAndPath"}, urlStr : URLs, host : Hosts,
                useSubdomain : BOOLEAN]

NoPath == [path |-> <<>>, query |-> ""]

\* extractTunnelIDAndPath, part_017 lines 30-64, on the URL, the host and the
\* mode: in subdomain mode the whole URL is the remaining path; in path mode
\* url.Parse(urlStr).Path is cut into segments, and the query is not looked at
extractTunnelIDAndPathOf(urlStr, host, useSubdomain) ==
    IF useSubdomain
    THEN IF Len(host) < 2
         THEN [tunnelID |-> NoId, remainingPath |-> NoPath, err |-> "invalid host"]
         ELSE [tunnelID |-> LabelText(host[1]), remainingPath |-> urlStr, err |-> ""]
    ELSE LET r == extractTunnelIDAndPath(urlStr.path)
         IN [tunnelID |-> r.tunnelID,
             remainingPath |-> [path |-> r.remainingPath, query |-> ""],
             err |-> r.err]

\* the paths the router tells apart: "/tunnel", "/", "/login", and the
\* public URLs
RoutePaths == {<<"tunnel">>, <<"login">>} \cup PublicPaths
Upgrades == {"", "websocket"}

RouteArgs == [fn : {"Server.ServeHTTP"}, path : RoutePaths, upgrade : Upgrades,
              host : Hosts, useSubdomain : BOOLEAN]

\* NewWebHandler, web.go lines 26-58: the web mux; every path without a route
\* of its own falls to "/", which redirects to /login
WebServeHTTP(path) ==
    IF path = <<"login">>
    THEN [handler |-> "web.login", status |-> StatusOK]
    ELSE [handler |-> "web.redirect", status |-> StatusTemporaryRedirect]

\* Server.ServeHTTP, part_016 lines 28-57; status 0: the handler named decides
ServerServeHTTP(path, upgrade, host, useSubdomain) ==
    IF path = <<"tunnel">> /\ upgrade = "websocket"
    THEN [handler |-> "tunnel.HandleWS", status |-> 0]
    ELSE IF useSubdomain /\ Len(host) > 2 /\ host[1] # Word("www")
    THEN [handler |-> "tunnel.ServeHTTP", status |-> 0]
    ELSE IF Len(path) >= 2 /\ path[1] = "local"
    THEN [handler |-> "tunnel.ServeHTTP", status |-> 0]
    ELSE WebServeHTTP(path)

\* header maps (map[string]string): a record of the headers that matter, its
\* fields the canonical names without their hyphens; Absent: not in the map
Absent == "(absent)"
HeaderMaps ==
    [Upgrade : {Absent, "websocket", "WebSocket", "h2c"},
     Connection : {Absent, "upgrade", "Upgrade", "keep-alive"},
     SecWebSocketKey : {Absent, "k"},
     XForwardedFor : {Absent, "1.2.3.4"},
     XEvil : {Absent, "attack"},
     ContentType : {Absent, "text/html"},
     ContentEncoding : {Absent, "gzip", "br"}]

\* strings.ToLower on the header names
ToLower(name) ==
    CASE name = "Upgrade" -> "upgrade"
      [] name = "Connection" -> "connection"
      [] name = "SecWebSocketKey" -> "sec-websocket-key"
      [] name = "XForwardedFor" -> "x-forwarded-for"
      [] name = "XEvil" -> "x-evil"
      [] name = "ContentType" -> "content-type"
      [] name = "ContentEncoding" -> "content-encoding"

\* strings.EqualFold on the header values
Fold(v) ==
    CASE v = "WebSocket" -> "websocket"
      [] v = "Upgrade" -> "upgrade"
      [] OTHER -> v
EqualFold(a, b) == Fold(a) = Fold(b)

\* part_021 lines 232-233, part_016 lines 253-254
isWebSocketUpgrade(headers) ==
    /\ EqualFold(headers.Upgrade, "websocket")
    /\ EqualFold(headers.Connection, "upgrade")

\* lines part_021 246-253, part_016 272-279: the names added for an upgrade
WebSocketHeaders ==
    {"connection", "upgrade", "sec-websocket-key", "sec-websocket-version",
     "sec-websocket-protocol", "sec-websocket-extensions"}

\* part_021 lines 236-253: the agent's allow-list for request headers
headersToKeep(upgrade) ==
    {"host", "user-agent", "accept", "accept-encoding", "accept-language",
     "content-type", "cookie", "x-forwarded-for", "x-forwarded-proto", "x-real-ip",
     "authorization"}
      \cup (IF upgrade THEN WebSocketHeaders ELSE {})

\* part_016 lines 257-279: the gateway's allow-list for response headers
responseHeadersToKeep(upgrade) ==
    {"content-type", "content-length", "set-cookie", "location", "cache-control",
     "expires", "etag", "last-modified", "vary", "x-request-id", "date", "server",
     "authorization"}
      \cup (IF upgrade THEN WebSocketHeaders ELSE {})

\* a filter that lets every header through
KeepAll(headers, keep) == headers

\* part_021 lines 255-261, part_016 lines 281-287: the cleaned map
Cleaned(headers, keep) ==
    [k \in DOMAIN headers |->
        IF headers[k] # Absent /\ ToLower(k) \in keep THEN headers[k] ELSE Absent]

\* part_021 lines 229-272: the headers set on the request to the local server
CleanRequestHeaders(headers) ==
    Cleaned(headers, headersToKeep(isWebSocketUpgrade(headers)))

\* part_016 lines 355-357
isGzipped(headers) == headers.ContentEncoding = "gzip"

\* http.Error, part_016 lines 293-296 and 302-305: none of the headers
NoHeaders(headers) == [k \in DOMAIN headers |-> Absent]

\* part_016 lines 253-341: the headers written to the public caller; when the
\* body is gzipped Content-Encoding is deleted, and when it cannot be
\* decompressed a 500 without any of the headers is written
CleanResponseHeaders(headers, gzipOK) ==
    LET kept == Cleaned(headers, responseHeadersToKeep(isWebSocketUpgrade(headers)))
    IN IF isGzipped(headers)
       THEN IF gzipOK THEN [kept EXCEPT !.ContentEncoding = Absent]
            ELSE NoHeaders(headers)
       ELSE kept

RequestHeaderArgs == [fn : {"requestHeaders"}, headers : HeaderMaps]
ResponseHeaderArgs == [fn : {"responseHeaders"}, headers : HeaderMaps, gzipOK : BOOLEAN]

PureInit ==
    /\ GatewayInit
    /\ NoRoundTrip
    /\ args \in ExtractArgs \cup RouteArgs \cup RequestHeaderArgs \cup ResponseHeaderArgs
    /\ result = NotCalled

CallExtract ==
    /\ args.fn = "extractTunnelIDAndPath"
    /\ result = NotCalled
    /\ result' = extractTunnelIDAndPathOf(args.urlStr, args.host, args.useSubdomain)
    /\ UNCHANGED <<args, gatewayVars, done, agentVars, wireVars, requestVars>>
    /\ UNCHANGED <<historyVars, eventVars, lockVars>>

CallRoute ==
    /\ args.fn = "Server.ServeHTTP"
    /\ result = NotCalled
    /\ result' = ServerServeHTTP(args.path, args.upgrade, args.host, args.useSubdomain)
    /\ UNCHANGED <<args, gatewayVars, done, agentVars, wireVars, requestVars>>
    /\ UNCHANGED <<historyVars, eventVars, lockVars>>

CallRequestHeaders ==
    /\ args.fn = "requestHeaders"
    /\ result = NotCalled
    /\ result' = CleanRequestHeaders(args.headers)
    /\ UNCHANGED <<args, gatewayVars, done, agentVars, wireVars, requestVars>>
    /\ UNCHANGED <<historyVars, eventVars, lockVars>>

CallResponseHeaders ==
    /\ args.fn = "responseHeaders"
    /\ result = NotCalled
    /\ result' = CleanResponseHeaders(args.headers, args.gzipOK)
    /\ UNCHANGED <<args, gatewayVars, done, agentVars, wireVars, requestVars>>
    /\ UNCHANGED <<historyVars, eventVars, lockVars>>

PureNext ==
    \/ CallExtract
    \/ CallRoute
    \/ CallRequestHeaders
    \/ CallResponseHeaders

PureSpec == PureInit /\ [][PureNext]_vars

(***************************************************************************)
(* The gateway's handler against a peer that sends any frame, with a clock *)
(* that moves: what each frame does to LastActivity.                      *)
(***************************************************************************)
\* the clock is read MaxNow ticks after the start at most
MaxNow == 2

\* time passes between two reads of time.Now()
Tick ==
    /\ now < MaxNow
    /\ now' = now + 1
    /\ UNCHANGED <<registryVars, connVars, agentVars, wireVars, requestVars, historyVars>>
    /\ UNCHANGED eventVars
    /\ UNCHANGED done
    /\ UNCHANGED pureVars
    /\ UNCHANGED lockVars

ActivityNext ==
    \/ Tick
    \/ \E c \in Conns : RawDial(c, "good")
    \/ \E c \in Conns, msg \in RawFrames : RawSend(c, msg)
    \/ \E c \in Conns : RawClose(c)
    \/ \E c \in Conns : HandleWSAccept(c)
    \/ \E c \in Conns : handleWSReceiveError(c)
    \/ \E c \in Conns : handleWSPing(c)
    \/ \E c \in Conns : handleWSPingSendFail(c)
    \/ \E c \in Conns : handleWSPong(c)
    \/ \E c \in Conns, id \in Ids : handleWSTunnelReq(c, id)
    \/ \E c \in Conns : handleWSTunnelResp(c)
    \/ \E c \in Conns : handleWSTunnelRespFail(c)
    \/ \E c \in Conns : handleWSHTTPResponse(c)
    \/ \E c \in Conns : handleWSDefault(c)
    \/ \E c \in Conns : handleWSCleanup(c)

ActivitySpec == Init /\ [][ActivityNext]_vars

(***************************************************************************)
(* The gateway with two sessions at a time: two agents, or an agent and a  *)
(* peer that writes HTTPResponse frames of its own, and one public         *)
(* request; the agents are not scheduled to serve it.                      *)
(***************************************************************************)
NumSessions == 2
Sessions == 1..NumSessions

PairInit == GatewayInitOn(Sessions) /\ NoRoundTrip /\ NoCall

PairNext ==
    \/ \E url \in PublicPaths : ServeHTTPNotFound(1, url)
    \/ \E url \in PublicPaths : ServeHTTPLookup(1, url)
    \/ \E rid \in Ids : ServeHTTPRegister(1, rid)
    \/ ServeHTTPSend(1)
    \/ ServeHTTPResponse(1)
    \/ ServeHTTPTimeout(1)
    \/ ServeHTTPDeferred(1)
    \/ \E c \in Sessions : HandleWSAccept(c)
    \/ \E c \in Sessions : handleWSReceiveError(c)
    \/ \E c \in Sessions, id \in Ids : handleWSTunnelReq(c, id)
    \/ \E c \in Sessions : handleWSTunnelResp(c)
    \/ \E c \in Sessions : handleWSHTTPResponse(c)
    \/ \E c \in Sessions : handleWSCleanup(c)
    \/ \E c \in Sessions : NewTunnelDial(c, "good")
    \/ \E c \in Sessions, port \in Ports : NewTunnelRequest(c, port)
    \/ \E c \in Sessions : NewTunnelAccepted(c)
    \/ \E c \in Sessions : handleMessagesReceiveError(c)
    \/ \E c \in Sessions : TunnelClose(c)
    \/ RawDial(NumSessions, "good")
    \/ \E rid \in Ids : RawSend(NumSessions, HTTPResponse(StatusOK, rid))

PairSpec == PairInit /\ [][PairNext]_vars

(***************************************************************************)
(* The gateway statement by statement where th.mu is concerned: each       *)
(* Lock() is a step of its own that waits for the mutex, the statements    *)
(* under the lock follow, and the Unlock() comes with the last of them.    *)
(* A position is the statement a goroutine executes next.  The peer is one *)
(* that writes any frame; what the frames do is as in the steps above.     *)
(* One public request is followed.                                         *)
(***************************************************************************)
Sweeper == Holder("cleanupDeadConnections", 0)

\* part_016 line 158: th.mu.Lock()
ServeHTTPLock158(p) ==
    /\ Arrives(p)
    /\ mu = Free
    /\ mu' = Holder("ServeHTTP", p)
    /\ pc' = [pc EXCEPT ![p] = "lookup"]
    /\ UNCHANGED <<gatewayVars, sweep, tunnelRef, requestId, outcome, written>>
    /\ UNCHANGED <<agentVars, wireVars, historyVars>>
    /\ UNCHANGED eventVars
    /\ UNCHANGED done
    /\ UNCHANGED pureVars

\* lines 159-184: th.tunnels[tunnelId], Unlock; 404 when it is not there
ServeHTTPLookup159(p, url) ==
    /\ pc[p] = "lookup"
    /\ LET id == extractTunnelIDAndPath(url).tunnelID
       IN IF id \in DOMAIN tunnels
          THEN /\ tunnelRef' = [tunnelRef EXCEPT ![p] = tunnels[id].WSConn]
               /\ pc' = [pc EXCEPT ![p] = "register"]
               /\ UNCHANGED <<outcome, written>>
          ELSE /\ pc' = [pc EXCEPT ![p] = "done"]
               /\ outcome' = [outcome EXCEPT ![p] = "notfound"]
               /\ written' = [written EXCEPT ![p] = StatusNotFound]
               /\ UNCHANGED tunnelRef
    /\ mu' = Free
    /\ UNCHANGED <<gatewayVars, sweep, requestId>>
    /\ UNCHANGED <<agentVars, wireVars, historyVars>>
    /\ UNCHANGED eventVars
    /\ UNCHANGED done
    /\ UNCHANGED pureVars

\* lines 187-190: the channel is made, generateID is called, th.mu.Lock()
ServeHTTPLock190(p, rid) ==
    /\ pc[p] = "register"
    /\ mu = Free
    /\ mu' = Holder("ServeHTTP", p)
    /\ requestId' = [requestId EXCEPT ![p] = rid]
    /\ pc' = [pc EXCEPT ![p] = "store"]
    /\ UNCHANGED <<gatewayVars, sweep, tunnelRef, outcome, written>>
    /\ UNCHANGED <<agentVars, wireVars, historyVars>>
    /\ UNCHANGED eventVars
    /\ UNCHANGED done
    /\ UNCHANGED pureVars

\* lines 191-192: th.pendingRequests[requestId] = respChan, Unlock
ServeHTTPStore191(p) ==
    /\ pc[p] = "store"
    /\ pendingRequests' = RegisterSlot(pendingRequests, requestId[p], p)
    /\ mu' = Free
    /\ pc' = [pc EXCEPT ![p] = "forward"]
    /\ UNCHANGED <<tunnels, chans, now, connVars, sweep>>
    /\ UNCHANGED <<tunnelRef, requestId, outcome, written>>
    /\ UNCHANGED <<agentVars, wireVars, historyVars>>
    /\ UNCHANGED eventVars
    /\ UNCHANGED done
    /\ UNCHANGED pureVars

\* line 196, in the deferred function: th.mu.Lock()
ServeHTTPLock196(p) ==
    /\ pc[p] = "deferred"
    /\ mu = Free
    /\ mu' = Holder("ServeHTTP", p)
    /\ pc' = [pc EXCEPT ![p] = "delete"]
    /\ UNCHANGED <<gatewayVars, sweep, tunnelRef, requestId, outcome, written>>
    /\ UNCHANGED <<agentVars, wireVars, historyVars>>
    /\ UNCHANGED eventVars
    /\ UNCHANGED done
    /\ UNCHANGED pureVars

\* lines 197-198: delete(th.pendingRequests, requestId), Unlock; the call returns
ServeHTTPDelete197(p) ==
    /\ pc[p] = "delete"
    /\ pendingRequests' = DeferredDelete(pendingRequests, requestId[p])
    /\ mu' = Free
    /\ pc' = [pc EXCEPT ![p] = "done"]
    /\ tunnelRef' = [tunnelRef EXCEPT ![p] = 0]
    /\ chans' = [chans EXCEPT ![p] = NewChan]
    /\ UNCHANGED <<tunnels, now, connVars, sweep, requestId, outcome, written>>
    /\ UNCHANGED <<agentVars, wireVars, historyVars>>
    /\ UNCHANGED eventVars
    /\ UNCHANGED done
    /\ UNCHANGED pureVars

\* http.go line 54: Receive fails
handleWSReceive54(c) ==
    /\ srv[c] = "loop"
    /\ toGateway[c] = <<>>
    /\ cliClosed[c] \/ lost[c]
    /\ srv' = [srv EXCEPT ![c] = "scan"]
    /\ UNCHANGED <<registryVars, now, srvReply, srvClosed, lockVars>>
    /\ UNCHANGED <<agentVars, wireVars, requestVars, historyVars>>
    /\ UNCHANGED eventVars
    /\ UNCHANGED done
    /\ UNCHANGED pureVars

\* lines 55-66: the loop over th.tunnels that finds the id for the log line;
\* then the return, which runs the deferred function
handleWSScan56(c) ==
    /\ srv[c] = "scan"
    /\ srv' = [srv EXCEPT ![c] = "cleanup"]
    /\ UNCHANGED <<registryVars, now, srvReply, srvClosed, lockVars>>
    /\ UNCHANGED <<agentVars, wireVars, requestVars, historyVars>>
    /\ UNCHANGED eventVars
    /\ UNCHANGED done
    /\ UNCHANGED pureVars

\* line 32, in the deferred function: th.mu.Lock()
handleWSLock32(c) ==
    /\ srv[c] = "cleanup"
    /\ mu = Free
    /\ mu' = Holder("handleWS", c)
    /\ srv' = [srv EXCEPT ![c] = "range"]
    /\ UNCHANGED <<registryVars, now, srvReply, srvClosed, sweep>>
    /\ UNCHANGED <<agentVars, wireVars, requestVars, historyVars>>
    /\ UNCHANGED eventVars
    /\ UNCHANGED done
    /\ UNCHANGED pureVars

\* lines 34-35: the loop over th.tunnels comes to a tunnel of this connection
handleWSRange34(c) ==
    /\ srv[c] = "range"
    /\ TunnelsOf(tunnels, c) # {}
    /\ srv' = [srv EXCEPT ![c] = "close"]
    /\ UNCHANGED <<registryVars, now, srvReply, srvClosed, lockVars>>
    /\ UNCHANGED <<agentVars, wireVars, requestVars, historyVars>>
    /\ UNCHANGED eventVars
    /\ UNCHANGED done
    /\ UNCHANGED pureVars

\* line 37: tunnel.WSConn.Close()
handleWSClose37(c) ==
    /\ srv[c] = "close"
    /\ srvClosed' = [srvClosed EXCEPT ![c] = TRUE]
    /\ toGateway' = [toGateway EXCEPT ![c] = <<>>]
    /\ srv' = [srv EXCEPT ![c] = "delete"]
    /\ UNCHANGED <<registryVars, now, srvReply, lockVars>>
    /\ UNCHANGED <<agentVars, toAgent, raws, lost, requestVars, historyVars>>
    /\ UNCHANGED eventVars
    /\ UNCHANGED done
    /\ UNCHANGED pureVars

\* lines 38-46: the tunnel and the pending requests of its id are deleted
handleWSDelete38(c, id) ==
    /\ srv[c] = "delete"
    /\ id \in TunnelsOf(tunnels, c)
    /\ LET rids == SlotsOf(pendingRequests, {id})
       IN /\ tunnels' = MapDeleteAll(tunnels, {id})
          /\ chans' = CloseChans(chans, pendingRequests, rids)
          /\ pendingRequests' = MapDeleteAll(pendingRequests, rids)
    /\ cleaned' = [cleaned EXCEPT ![c] = @ + 1]
    /\ srv' = [srv EXCEPT ![c] = "range"]
    /\ UNCHANGED <<now, srvReply, srvClosed, lockVars>>
    /\ UNCHANGED <<agentVars, wireVars, requestVars>>
    /\ UNCHANGED <<delivered, lastResp, orphaned, pongs>>
    /\ UNCHANGED eventVars
    /\ UNCHANGED done
    /\ UNCHANGED pureVars

\* lines 48-50: the loop is over, Unlock; the handler returns and the
\* connection is closed
handleWSUnlock49(c) ==
    /\ srv[c] = "range"
    /\ TunnelsOf(tunnels, c) = {}
    /\ mu' = Free
    /\ srv' = [srv EXCEPT ![c] = "closed"]
    /\ srvClosed' = [srvClosed EXCEPT ![c] = TRUE]
    /\ toGateway' = [toGateway EXCEPT ![c] = <<>>]
    /\ UNCHANGED <<registryVars, now, srvReply, sweep>>
    /\ UNCHANGED <<agentVars, toAgent, raws, lost, requestVars, historyVars>>
    /\ UNCHANGED eventVars
    /\ UNCHANGED done
    /\ UNCHANGED pureVars

\* lines 95-119: a TunnelRequest is read, the Tunnel is built, th.mu.Lock()
handleWSLock119(c) ==
    /\ CanReceive(c, "tunnel_req")
    /\ mu = Free
    /\ mu' = Holder("handleWS", c)
    /\ srv' = [srv EXCEPT ![c] = "store"]
    /\ UNCHANGED <<registryVars, now, srvReply, srvClosed, sweep>>
    /\ UNCHANGED <<agentVars, wireVars, requestVars, historyVars>>
    /\ UNCHANGED eventVars
    /\ UNCHANGED done
    /\ UNCHANGED pureVars

\* lines 120-121: th.tunnels[id] = t, Unlock
handleWSStore120(c, id) ==
    /\ srv[c] = "store"
    /\ toGateway' = Received(c)
    /\ tunnels' = RegisterTunnel(tunnels, id,
                     NewTunnelEntry(id, Head(toGateway[c]).Payload.LocalPort, c, now))
    /\ srvReply' = [srvReply EXCEPT ![c] = [URL |-> SubdomainURL(id)]]
    /\ mu' = Free
    /\ srv' = [srv EXCEPT ![c] = "reply"]
    /\ UNCHANGED <<pendingRequests, chans, now, srvClosed, sweep>>
    /\ UNCHANGED <<agentVars, toAgent, raws, lost, requestVars, historyVars>>
    /\ UNCHANGED eventVars
    /\ UNCHANGED done
    /\ UNCHANGED pureVars

\* lines 123-132: the TunnelResponse is sent; a failure is only logged
handleWSSend130(c) ==
    /\ srv[c] = "reply"
    /\ \/ /\ GatewaySendCanSucceed(c)
          /\ GatewaySendHasRoom(c)
          /\ toAgent' = GatewaySent(c, TunnelResponse(srvReply[c].URL))
       \/ /\ GatewaySendCanFail(c)
          /\ toAgent' = toAgent
    /\ srv' = [srv EXCEPT ![c] = "count"]
    /\ srvReply' = [srvReply EXCEPT ![c] = NoPayload]
    /\ UNCHANGED <<registryVars, now, srvClosed, lockVars>>
    /\ UNCHANGED <<agentVars, toGateway, raws, lost, requestVars, historyVars>>
    /\ UNCHANGED eventVars
    /\ UNCHANGED done
    /\ UNCHANGED pureVars

\* line 134: len(th.tunnels) for the log line
handleWSCount134(c) ==
    /\ srv[c] = "count"
    /\ srv' = [srv EXCEPT ![c] = "loop"]
    /\ UNCHANGED <<registryVars, now, srvReply, srvClosed, lockVars>>
    /\ UNCHANGED <<agentVars, wireVars, requestVars, historyVars>>
    /\ UNCHANGED eventVars
    /\ UNCHANGED done
    /\ UNCHANGED pureVars

\* lines 69-73: an HTTPResponse is read and decoded, th.mu.Lock()
handleWSLock73(c) ==
    /\ CanReceive(c, "http_response")
    /\ mu = Free
    /\ mu' = Holder("handleWS", c)
    /\ srv' = [srv EXCEPT ![c] = "touch"]
    /\ UNCHANGED <<registryVars, now, srvReply, srvClosed, sweep>>
    /\ UNCHANGED <<agentVars, wireVars, requestVars, historyVars>>
    /\ UNCHANGED eventVars
    /\ UNCHANGED done
    /\ UNCHANGED pureVars

\* lines 74-79: LastActivity of the connection's tunnels, Unlock
handleWSTouch74(c) ==
    /\ srv[c] = "touch"
    /\ tunnels' = TouchTunnels(tunnels, c, now)
    /\ mu' = Free
    /\ srv' = [srv EXCEPT ![c] = "found"]
    /\ UNCHANGED <<pendingRequests, chans, now, srvReply, srvClosed, sweep>>
    /\ UNCHANGED <<agentVars, wireVars, requestVars, historyVars>>
    /\ UNCHANGED eventVars
    /\ UNCHANGED done
    /\ UNCHANGED pureVars

\* lines 136-145: the HTTPResponse case, th.mu.Lock()
handleWSLock145(c) ==
    /\ srv[c] = "found"
    /\ mu = Free
    /\ mu' = Holder("handleWS", c)
    /\ srv' = [srv EXCEPT ![c] = "deliver"]
    /\ UNCHANGED <<registryVars, now, srvReply, srvClosed, sweep>>
    /\ UNCHANGED <<agentVars, wireVars, requestVars, historyVars>>
    /\ UNCHANGED eventVars
    /\ UNCHANGED done
    /\ UNCHANGED pureVars

\* lines 146-150: the response is sent on the channel of its slot, the slot
\* is deleted, Unlock
handleWSDeliver146(c) ==
    /\ srv[c] = "deliver"
    /\ LET resp == Head(toGateway[c]).Payload
           to == DeliverTo(pendingRequests, resp.RequestId)
       IN /\ \A p \in to : Len(chans[p].buf) < ChanCap /\ ~chans[p].closed
          /\ chans' = [p \in Requests |->
                          IF p \in to THEN [chans[p] EXCEPT !.buf = Append(@, resp)]
                          ELSE chans[p]]
          /\ pendingRequests' = IF to = {} THEN pendingRequests
                                ELSE DeliverRemove(pendingRequests, resp.RequestId)
          /\ delivered' = [p \in Requests |->
                              IF p \in to THEN Append(delivered[p], resp.RequestId)
                              ELSE delivered[p]]
          /\ lastResp' = [kind |-> IF to = {} THEN "dropped" ELSE "delivered",
                          rid |-> resp.RequestId]
    /\ toGateway' = Received(c)
    /\ mu' = Free
    /\ srv' = [srv EXCEPT ![c] = "loop"]
    /\ UNCHANGED <<tunnels, now, srvReply, srvClosed, sweep>>
    /\ UNCHANGED <<agentVars, toAgent, raws, lost, requestVars, orphaned, cleaned, pongs>>
    /\ UNCHANGED eventVars
    /\ UNCHANGED done
    /\ UNCHANGED pureVars

\* http.go lines 186-187 and 203: the ticker fires, th.mu.Lock()
cleanupLock203 ==
    /\ ~done
    /\ sweep.at = "idle"
    /\ mu = Free
    /\ mu' = Sweeper
    /\ sweep' = [at |-> "range", todo |-> DOMAIN tunnels, id |-> NoId]
    /\ UNCHANGED <<gatewayVars, agentVars, wireVars, requestVars, historyVars>>
    /\ UNCHANGED eventVars
    /\ UNCHANGED done
    /\ UNCHANGED pureVars

\* line 206: the loop over th.tunnels comes to tunnel id
cleanupRange206(id) ==
    /\ sweep.at = "range"
    /\ id \in sweep.todo
    /\ sweep' = [at |-> "ping", todo |-> sweep.todo \ {id}, id |-> id]
    /\ UNCHANGED <<gatewayVars, mu, agentVars, wireVars, requestVars, historyVars>>
    /\ UNCHANGED eventVars
    /\ UNCHANGED done
    /\ UNCHANGED pureVars

\* lines 195-199 and 207: isConnClosed sends the probe Ping, and it is sent
cleanupPing196(c) ==
    /\ sweep.at = "ping"
    /\ c = tunnels[sweep.id].WSConn
    /\ GatewaySendCanSucceed(c)
    /\ GatewaySendHasRoom(c)
    /\ toAgent' = GatewaySent(c, PingMessage)
    /\ sweep' = [sweep EXCEPT !.at = "range", !.id = NoId]
    /\ UNCHANGED <<gatewayVars, mu, agentVars, toGateway, raws, lost, requestVars, historyVars>>
    /\ UNCHANGED eventVars
    /\ UNCHANGED done
    /\ UNCHANGED pureVars

\* lines 207-217: the probe Ping cannot be sent; the tunnel and the pending
\* requests of its id are deleted
cleanupDelete209(c) ==
    /\ sweep.at = "ping"
    /\ c = tunnels[sweep.id].WSConn
    /\ GatewaySendCanFail(c)
    /\ LET rids == SlotsOf(pendingRequests, {sweep.id})
       IN /\ tunnels' = MapDeleteAll(tunnels, {sweep.id})
          /\ chans' = CloseChans(chans, pendingRequests, rids)
          /\ pendingRequests' = MapDeleteAll(pendingRequests, rids)
    /\ sweep' = [sweep EXCEPT !.at = "range", !.id = NoId]
    /\ UNCHANGED <<now, connVars, mu, agentVars, wireVars, requestVars, historyVars>>
    /\ UNCHANGED eventVars
    /\ UNCHANGED done
    /\ UNCHANGED pureVars

\* line 205, deferred: the loop is over, Unlock
cleanupUnlock205 ==
    /\ sweep.at = "range"
    /\ sweep.todo = {}
    /\ mu' = Free
    /\ sweep' = NoSweep
    /\ UNCHANGED <<gatewayVars, agentVars, wireVars, requestVars, historyVars>>
    /\ UNCHANGED eventVars
    /\ UNCHANGED done
    /\ UNCHANGED pureVars

\* the frames of the peer that lead the handler to th.mu, and Ping
LockFrames ==
    {PingMessage} \cup {TunnelRequest(port) : port \in Ports}
      \cup {HTTPResponse(StatusOK, rid) : rid \in Ids}

LockNext ==
    \/ ServeHTTPLock158(1)
    \/ \E p \in Requests, url \in PublicPaths : ServeHTTPLookup159(p, url)
    \/ \E p \in Requests, rid \in Ids : ServeHTTPLock190(p, rid)
    \/ \E p \in Requests : ServeHTTPStore191(p)
    \/ \E p \in Requests : ServeHTTPSend(p)
    \/ \E p \in Requests : ServeHTTPSendFail(p)
    \/ \E p \in Requests : ServeHTTPResponse(p)
    \/ \E p \in Requests : ServeHTTPNil(p)
    \/ \E p \in Requests : ServeHTTPTimeout(p)
    \/ \E p \in Requests : ServeHTTPLock196(p)
    \/ \E p \in Requests : ServeHTTPDelete197(p)
    \/ \E c \in Conns : HandleWSAccept(c)
    \/ \E c \in Conns : handleWSReceive54(c)
    \/ \E c \in Conns : handleWSScan56(c)
    \/ \E c \in Conns : handleWSLock32(c)
    \/ \E c \in Conns : handleWSRange34(c)
    \/ \E c \in Conns : handleWSClose37(c)
    \/ \E c \in Conns, id \in Ids : handleWSDelete38(c, id)
    \/ \E c \in Conns : handleWSUnlock49(c)
    \/ \E c \in Conns : handleWSPing(c)
    \/ \E c \in Conns : handleWSPingSendFail(c)
    \/ \E c \in Conns : handleWSLock119(c)
    \/ \E c \in Conns, id \in Ids : handleWSStore120(c, id)
    \/ \E c \in Conns : handleWSSend130(c)
    \/ \E c \in Conns : handleWSCount134(c)
    \/ \E c \in Conns : handleWSLock73(c)
    \/ \E c \in Conns : handleWSTouch74(c)
    \/ \E c \in Conns : handleWSLock145(c)
    \/ \E c \in Conns : handleWSDeliver146(c)
    \/ cleanupLock203
    \/ \E id \in Ids : cleanupRange206(id)
    \/ \E c \in Conns : cleanupPing196(c)
    \/ \E c \in Conns : cleanupDelete209(c)
    \/ cleanupUnlock205
    \/ \E c \in Conns : RawDial(c, "good")
    \/ \E c \in Conns, msg \in LockFrames : RawSend(c, msg)
    \/ \E c \in Conns : RawClose(c)

LockSpec == Init /\ [][LockNext]_vars

(***************************************************************************)
(* Properties of the request/response path and of the registry.            *)
(***************************************************************************)
Range(f) == {f[x] : x \in DOMAIN f}

\* the handleWS loop of connection c takes an HTTPResponse frame in this step
TakesHTTPResponse(c) ==
    /\ CanReceive(c, "http_response")
    /\ toGateway'[c] = Tail(toGateway[c])

\* C1: whenever ServeHTTP sends the HTTPRequest frame with request id R on the
\* tunnel's connection, the pending-request map holds a slot for R at that
\* moment: registered before the send and still present when the frame leaves.
C1_SlotPresentAtSend ==
    [][\A p \in Requests :
          (pc[p] = "forward" /\ pc'[p] = "wait")
             => requestId[p] \in DOMAIN pendingRequests]_vars

\* every value on the response channel of a call carries the request id the
\* call registered
WaiterReceivesOwnId ==
    \A p \in Requests :
       \A i \in DOMAIN chans[p].buf : chans[p].buf[i].RequestId = requestId[p]

\* an HTTPResponse frame the agent puts on the connection carries the request
\* id of a request the agent received and whose local call it thereby ends
AgentTagsResponse ==
    \A c \in Conns :
       (/\ cli[c] = "loop"
        /\ Len(toGateway'[c]) = Len(toGateway[c]) + 1
        /\ toGateway'[c][Len(toGateway'[c])].Type = "http_response")
          => LET rid == toGateway'[c][Len(toGateway'[c])].Payload.RequestId
             IN calls[c][rid] > 0 /\ calls'[c][rid] = calls[c][rid] - 1

\* C2: for any concurrent public requests and any arrival order of the
\* HTTPResponse frames, a waiting ServeHTTP call receives only a response whose
\* request id equals the id it registered, and the agent tags each
\* HTTPResponse with the request id of the HTTPRequest it answers.
C2_ResponseMatchesWaiter == []WaiterReceivesOwnId /\ [][AgentTagsResponse]_vars

\* C2 at work: two calls wait under different ids on an agent's tunnel and the
\* response to the later one has arrived first
C2_Witness ==
    \E p, q \in Requests :
       /\ q < p
       /\ pc[p] = "wait" /\ pc[q] = "wait"
       /\ requestId[p] # requestId[q]
       /\ chans[p].buf # <<>> /\ chans[q].buf = <<>>
       /\ cli[tunnelRef[p]] = "loop" /\ tunnelRef[q] = tunnelRef[p]

\* C3 as stated: every slot created by ServeHTTP is resolved exactly once, by
\* exactly one of the delivery of the matching HTTPResponse, the expiry of the
\* deadline, or the teardown of the owning session.
C3_ThreeResolutions ==
    \A p \in Requests :
       (pc[p] = "done" /\ outcome[p] # "notfound")
          => outcome[p] \in {"response", "timeout", "nil"}

\* how a call that created a slot has left it, and what is left of the slot
SlotResolved ==
    \A p \in Requests :
       /\ Len(delivered[p]) <= 1
       /\ ~(delivered[p] # <<>> /\ chans[p].closed)
       /\ pc[p] \in {"deferred", "done"} /\ outcome[p] # "notfound"
             => outcome[p] \in {"response", "timeout", "nil", "readfail", "sendfail"}
       /\ outcome[p] = "response" => Len(delivered[p]) = 1
       /\ outcome[p] = "nil" => delivered[p] = <<>>
       /\ pc[p] = "done" => p \notin Range(pendingRequests)

\* a call leaves its slot once: its outcome never changes afterwards
OutcomeStable ==
    \A p \in Requests : outcome[p] # "none" => outcome'[p] = outcome[p]

\* C3 amended: every slot created by ServeHTTP is resolved exactly once, by
\* exactly one of the delivery of the matching HTTPResponse, the expiry of the
\* deadline, the close of its channel by a cleanup, or the return of ServeHTTP
\* after it failed to read the body or to send the frame; the slot is out of
\* the pending map when ServeHTTP has returned.
C3_ResolvedOnce == []SlotResolved /\ [][OutcomeStable]_vars

\* C3 at work: one call returned after a failed body read, another was
\* delivered its response
C3_Witness ==
    \E p, q \in Requests :
       /\ pc[p] = "done" /\ outcome[p] = "readfail"
       /\ pc[q] = "done" /\ outcome[q] = "response"

\* C4: after the handler of a connection has ended and finished its cleanup,
\* by EOF, a receive error or a send error, no tunnel of that connection remains
\* in the registry, however many the session had registered.
C4_NoTunnelAfterCleanup ==
    \A id \in DOMAIN tunnels : srv[tunnels[id].WSConn] # "closed"

\* C4 at work: the cleanup of a connection has removed two tunnels
C4_Witness == \E c \in Conns : srv[c] = "closed" /\ cleaned[c] = 2

\* C5: when the session is torn down while a public request waits on its slot,
\* the waiter is woken by the teardown and the public caller receives
\* 502 Bad Gateway.
C5_TeardownGivesBadGateway ==
    \A p \in Requests : (orphaned[p] /\ pc[p] = "done") => written[p] = 502

\* C6: a TunnelRequest is given a tunnel id that differs from every id in the
\* registry, so registering the new tunnel adds an entry and never replaces one.
C6_FreshTunnelId ==
    [][\A c \in Conns :
          (srv[c] = "loop" /\ srv'[c] = "reply")
             => Cardinality(DOMAIN tunnels') = Cardinality(DOMAIN tunnels) + 1]_vars

\* a channel is sent at most one response, and its slot is gone once it has it
DeliveredOnce ==
    \A p \in Requests :
       /\ Len(delivered[p]) <= 1
       /\ Len(chans[p].buf) <= ChanCap
       /\ delivered[p] # <<>> => p \notin Range(pendingRequests)

\* an HTTPResponse frame resolves the slot of its id and removes it, or finds
\* no slot and changes none; no other slot or channel changes
DeliveryStep ==
    \A c \in Conns :
       TakesHTTPResponse(c) =>
          LET resp == Head(toGateway[c]).Payload
              rid == resp.RequestId
          IN IF rid \in DOMAIN pendingRequests
             THEN /\ DOMAIN pendingRequests' = DOMAIN pendingRequests \ {rid}
                  /\ \A r \in DOMAIN pendingRequests' :
                        pendingRequests'[r] = pendingRequests[r]
                  /\ chans'[pendingRequests[rid]].buf = <<resp>>
                  /\ \A p \in Requests \ {pendingRequests[rid]} : chans'[p] = chans[p]
             ELSE pendingRequests' = pendingRequests /\ chans' = chans

\* C7: of several HTTPResponse frames with one request id at most the first is
\* delivered to the waiter of that id; the slot is removed on delivery, and a
\* later frame with that id is discarded, waking no waiter and changing no
\* other slot.
C7_FirstResponseOnly == []DeliveredOnce /\ [][DeliveryStep]_vars

\* C7 at work: the only public request so far was delivered a response, and
\* a second frame with its request id has been discarded
C7_Witness ==
    \E p \in Requests :
       /\ delivered[p] = <<requestId[p]>>
       /\ lastResp = [kind |-> "dropped", rid |-> requestId[p]]
       /\ \A q \in Requests \ {p} : pc[q] = "idle"

\* a call that met its deadline answered 504 and its slot is gone on return
TimedOut ==
    \A p \in Requests :
       outcome[p] = "timeout" =>
          /\ written[p] = StatusGatewayTimeout
          /\ pc[p] = "done" => p \notin Range(pendingRequests)

\* the deadline and the return after it leave the registry of tunnels and
\* every connection handler as they are
TimeoutKeepsSession ==
    \A p \in Requests :
       (\/ pc[p] = "wait" /\ outcome'[p] = "timeout"
        \/ outcome[p] = "timeout" /\ pc[p] = "deferred" /\ pc'[p] = "done")
          => tunnels' = tunnels /\ srv' = srv /\ srvClosed' = srvClosed

\* C8: when no HTTPResponse arrives before the deadline the public caller
\* receives 504, the slot of the request is no longer in the pending set, and
\* the session and its tunnels stay registered to serve later requests.
C8_DeadlineGives504 == []TimedOut /\ [][TimeoutKeepsSession]_vars

\* C8 at work: the first request timed out and returned; the agent's session
\* runs on and its tunnel is registered for the request that has yet to come
C8_Witness ==
    /\ pc[1] = "done" /\ outcome[1] = "timeout" /\ written[1] = StatusGatewayTimeout
    /\ pc[2] = "idle"
    /\ \E id \in DOMAIN tunnels :
          LET c == tunnels[id].WSConn
          IN srv[c] = "loop" /\ cli[c] = "loop" /\ ~cliClosed[c] /\ ~lost[c]

\* C9: an HTTPResponse frame whose request id has no slot is dropped: the
\* pending set and the set of registered tunnels are unchanged, no waiter is
\* woken, and the session keeps running.
C9_UnknownResponseDropped ==
    [][\A c \in Conns :
          (/\ TakesHTTPResponse(c)
           /\ Head(toGateway[c]).Payload.RequestId \notin DOMAIN pendingRequests)
             => /\ pendingRequests' = pendingRequests
                /\ chans' = chans
                /\ DOMAIN tunnels' = DOMAIN tunnels
                /\ \A id \in DOMAIN tunnels :
                      /\ tunnels'[id].WSConn = tunnels[id].WSConn
                      /\ tunnels'[id].LocalPort = tunnels[id].LocalPort
                /\ pc' = pc /\ outcome' = outcome /\ written' = written
                /\ srv'[c] = "loop" /\ srvClosed' = srvClosed]_vars

\* C9 at work: the request met its deadline and returned, and the agent's
\* late response to it has been dropped by the session, which runs on
C9_Witness ==
    \E p \in Requests, c \in Conns :
       /\ pc[p] = "done" /\ outcome[p] = "timeout" /\ delivered[p] = <<>>
       /\ lastResp = [kind |-> "dropped", rid |-> requestId[p]]
       /\ \A q \in Requests \ {p} : pc[q] = "idle"
       /\ srv[c] = "loop" /\ cli[c] = "loop"

\* the upgrade request of connection c carried no token or a rejected one
Unauthenticated(c) == srv[c] # "none" /\ (token[c] = "" \/ ~ValidateToken(token[c]))

\* an unauthenticated connection never gets to the frame loop, owns no tunnel,
\* and is sent nothing but one Error frame
RejectedNeverActive ==
    \A c \in Conns :
       Unauthenticated(c) =>
          /\ srv[c] \in {"auth", "closed"}
          /\ \A id \in DOMAIN tunnels : tunnels[id].WSConn # c
          /\ cleaned[c] = 0
          /\ Len(toAgent[c]) <= 1
          /\ \A i \in DOMAIN toAgent[c] : toAgent[c][i].Type = "error"

\* the step that ends the authentication of an unauthenticated connection
\* sends the Error frame with the reason and closes the connection
RejectStep ==
    \A c \in Conns :
       (Unauthenticated(c) /\ srv[c] = "auth" /\ srv'[c] # "auth") =>
          /\ srv'[c] = "closed" /\ srvClosed'[c]
          /\ tunnels' = tunnels /\ pendingRequests' = pendingRequests
          /\ (cli[c] = "dialed" \/ cli[c] = "await") /\ ~lost[c] =>
                toAgent'[c] = Append(toAgent[c],
                    ErrorMessage(IF token[c] = "" THEN "no token provided"
                                 ELSE "invalid token"))

NewTunnelErrors ==
    \A c \in Conns :
       /\ agentErr[c] # NoError =>
             /\ cli[c] = "failed"
             /\ c \notin Range(agentTunnels)
             /\ agentUrl[c] = <<>>
       /\ agentErr[c].kind = "failed to create tunnel" =>
             /\ agentErr[c].reason # ""
             /\ agentErr[c].reason = authenticateWebSocket(token[c])
       /\ cli[c] \in {"loop", "done"} => agentErr[c] = NoError /\ ValidateToken(token[c])

\* NewTunnel's first frame: an Error frame makes it return the reason and store
\* nothing, any other frame makes it store the tunnel and start the loop
FirstFrameStep ==
    \A c \in Conns :
       (cli[c] = "await" /\ cli'[c] # "await" /\ AgentCanReceive(c)) =>
          IF Head(toAgent[c]).Type = "error"
          THEN /\ cli'[c] = "failed"
               /\ agentErr'[c] = [kind |-> "failed to create tunnel",
                                  reason |-> Head(toAgent[c]).Payload.error]
               /\ agentTunnels' = agentTunnels
          ELSE /\ cli'[c] = "loop"
               /\ agentErr'[c] = NoError
               /\ agentUrl'[c] = TunnelURL(Head(toAgent[c]))
               /\ agentTunnels'[agentUrl'[c]] = c

TunnelReqStep ==
    \A c \in Conns :
       (srv[c] = "loop" /\ srv'[c] = "reply") =>
          \E id \in Ids :
             /\ DOMAIN tunnels' = DOMAIN tunnels \cup {id}
             /\ \A other \in DOMAIN tunnels \ {id} : tunnels'[other] = tunnels[other]
             /\ tunnels'[id].ID = id
             /\ tunnels'[id].WSConn = c
             /\ tunnels'[id].LocalPort = Head(toGateway[c]).Payload.LocalPort
             /\ srvReply'[c] = [URL |-> <<"http://localhost:8001", "/local/", id>>]
             /\ toAgent' = toAgent

\* the reply is one TunnelResponse with that URL on the same connection
TunnelRespStep ==
    \A c \in Conns :
       (srv[c] = "reply" /\ srv'[c] = "loop") =>
          /\ tunnels' = tunnels
          /\ \A d \in Conns \ {c} : toAgent'[d] = toAgent[d]
          /\ \/ toAgent'[c] = Append(toAgent[c], TunnelResponse(srvReply[c].URL))
             \/ toAgent'[c] = toAgent[c] /\ (cli[c] = "raw" \/ cliClosed[c] \/ lost[c])

TakesPing(c) ==
    /\ CanReceive(c, "ping")
    /\ toGateway'[c] = Tail(toGateway[c])

\* a Ping is answered with one Pong and the session stays in its loop; the
\* handler leaves the loop only if the connection is gone and the Pong cannot
\* be sent; nothing but a Ping makes the gateway send a Pong
PingStep ==
    \A c \in Conns :
       /\ TakesPing(c) =>
             /\ tunnels' = tunnels /\ pendingRequests' = pendingRequests
             /\ srv'[c] \in {"loop", "cleanup"}
             /\ srv'[c] = "loop" => pongs'[c] = pongs[c] + 1
             /\ srv'[c] = "cleanup" => pongs'[c] = pongs[c] /\ (cliClosed[c] \/ lost[c])
             /\ (~cliClosed[c] /\ ~lost[c]) => srv'[c] = "loop" /\ ~srvClosed'[c]
       /\ pongs'[c] # pongs[c] => TakesPing(c)

\* C14: every Ping frame received on an active session is answered with exactly
\* one Pong frame on the same connection, and the session stays active.
C14_PingAnswered == [][PingStep]_vars

\* C14 at work: two Pings of a peer were answered and its session runs on
C14_Witness ==
    \E c \in Conns : pongs[c] = 2 /\ srv[c] = "loop" /\ ~cliClosed[c]

\* the path is not of the form /local/{tunnel_id}[...]
Malformed(url) == Len(url) < 2 \/ url[1] # "local" \/ url[2] = NoId

\* a request that names no registered tunnel cannot be routed to one, and can
\* be answered as not found
NoRoute ==
    \A p \in Requests, url \in PublicPaths :
       (Malformed(url) \/ url[2] \notin DOMAIN tunnels) =>
          /\ ~ENABLED ServeHTTPLookup(p, url)
          /\ Arrives(p) => ENABLED ServeHTTPNotFound(p, url)

\* the call that finds no tunnel answers 404 and touches nothing else
NotFoundStep ==
    \A p \in Requests :
       (pc[p] = "idle" /\ pc'[p] = "done") =>
          /\ written'[p] = StatusNotFound
          /\ pendingRequests' = pendingRequests /\ chans' = chans
          /\ tunnels' = tunnels
          /\ toAgent' = toAgent /\ toGateway' = toGateway
          /\ srv' = srv /\ srvClosed' = srvClosed

\* C15: a public request whose tunnel id is not in the registry, or whose URL
\* is not of the form /local/{tunnel_id}[...], is answered with 404; handling
\* it registers no slot, sends no frame and leaves the registry unchanged.
C15_NotFound == []NoRoute /\ [][NotFoundStep]_vars

\* C15 at work: a request was answered 404 while a tunnel is registered
C15_Witness ==
    \E p \in Requests :
       /\ pc[p] = "done" /\ outcome[p] = "notfound" /\ written[p] = StatusNotFound
       /\ DOMAIN tunnels # {}

\* C16: when the gateway receives an HTTPRequest, a TunnelResponse or an Error
\* frame on an active session, the session is closed: its reader stops, the
\* stream is closed and its tunnels are removed from the registry.
C16_ProtocolViolationCloses ==
    [][\A c \in Conns :
          (/\ srv[c] = "loop"
           /\ toGateway[c] # <<>>
           /\ Head(toGateway[c]).Type \in {"http_request", "tunnel_resp", "error"}
           /\ toGateway'[c] = Tail(toGateway[c]))
             => srv'[c] = "cleanup"]_vars

\* C17: if sending a frame on a session fails (an HTTPRequest sent by
\* ServeHTTP, a Pong, or a TunnelResponse), the session transitions to closing:
\* its stream is closed and its tunnels leave the registry.
C17_SendFailureCloses ==
    [][\A p \in Requests :
          (outcome[p] = "none" /\ outcome'[p] = "sendfail")
             => srv'[tunnelRef[p]] \in {"cleanup", "closed"}]_vars

\* whatever local calls are outstanding, the agent's loop can take the frame at
\* the head of its connection, and every outstanding call can be answered
LoopNeverWaits ==
    \A c \in Conns :
       (cli[c] = "loop" /\ AgentCanReceive(c)) =>
          /\ Head(toAgent[c]).Type = "http_request" => ENABLED handleMessagesHTTPRequest(c)
          /\ (Head(toAgent[c]).Type = "ping" /\ Len(toGateway[c]) < MaxQueue) =>
                ENABLED handleMessagesPing(c)
          /\ \A r \in Ids :
                (calls[c][r] > 0 /\ Len(toGateway[c]) < MaxQueue) =>
                   ENABLED LocalCallResponse(c, r, StatusOK)

\* C18: while a local HTTP call for one HTTPRequest is outstanding, the agent's
\* receive loop keeps reading frames: a later HTTPRequest is dispatched and
\* answered, and a Ping is answered with Pong, without waiting for the earlier
\* call to finish.
C18_NoHeadOfLineBlocking == []LoopNeverWaits

\* C18 at work: the local call of the first request is still outstanding while
\* the second request has its response and a Ping has been answered
C18_Witness ==
    \E c \in Conns, p, q \in Requests :
       /\ q < p /\ pc[q] = "wait" /\ tunnelRef[q] = c /\ tunnelRef[p] = c
       /\ requestId[p] # requestId[q]
       /\ calls[c][requestId[q]] = 1 /\ chans[q].buf = <<>>
       /\ pc[p] = "wait" /\ chans[p].buf # <<>>
       /\ cli[c] = "loop" /\ toGateway[c] = <<PongMessage>>

\* a call of the agent ends and no frame is put on its connection
CallEndsSilently(c) ==
    /\ \E r \in Ids : calls'[c][r] = calls[c][r] - 1
    /\ toGateway'[c] = toGateway[c]

\* the end of a local call that sends nothing leaves the agent's loop, its
\* tunnels and the gateway's registry and pending set as they are
FailedCallStep ==
    \A c \in Conns :
       CallEndsSilently(c) =>
          /\ cli' = cli /\ cliClosed' = cliClosed /\ agentTunnels' = agentTunnels
          /\ tunnels' = tunnels /\ pendingRequests' = pendingRequests
          /\ srv' = srv /\ chans' = chans

\* the request of p was forwarded on a session that still runs, and nothing
\* that could answer it is left: no local call for its id is outstanding and
\* no frame with its id is on the connection in either direction
Unanswered(p) ==
    LET c == tunnelRef[p]
        id == requestId[p]
    IN /\ pc[p] = "wait" /\ chans[p].buf = <<>> /\ ~chans[p].closed
       /\ srv[c] = "loop" /\ cli[c] = "loop"
       /\ calls[c][id] = 0
       /\ \A i \in DOMAIN toAgent[c] :
             ~(toAgent[c][i].Type = "http_request" /\ toAgent[c][i].Payload.RequestId = id)
       /\ \A i \in DOMAIN toGateway[c] :
             ~(toGateway[c][i].Type = "http_response" /\ toGateway[c][i].Payload.RequestId = id)

\* the only way an unanswered request ends is the deadline, with 504
UnansweredStep ==
    \A p \in Requests :
       (Unanswered(p) /\ outcome'[p] # outcome[p]) =>
          /\ outcome'[p] = "timeout"
          /\ written'[p] = StatusGatewayTimeout

\* the deadline of an unanswered request can always fire
UnansweredTimesOut ==
    \A p \in Requests : Unanswered(p) => ENABLED ServeHTTPTimeout(p)

\* C19: when the agent's local HTTP call for a request fails, the agent sends
\* no HTTPResponse for that request id, its dispatch loop keeps running and its
\* tunnel stays registered; the public request then ends with 504 at the
\* deadline.
C19_FailedLocalCall ==
    []UnansweredTimesOut /\ [][FailedCallStep /\ UnansweredStep]_vars

\* C19 at work: the only request that was made got 504. The agent had its
\* tunnel's URL before the request reached its loop, so the loop started a call
\* for it; the call ended without a frame: nothing is in flight, the gateway
\* handled no response, and the agent's loop and tunnel are still there
C19_Witness ==
    \E c \in Conns :
       /\ outcome[1] = "timeout" /\ written[1] = StatusGatewayTimeout
       /\ tunnelRef[1] = c /\ pc[2] = "idle"
       /\ cli[c] = "loop" /\ ~cliClosed[c] /\ ~lost[c] /\ srv[c] = "loop"
       /\ agentUrl[c] \in DOMAIN agentTunnels
       /\ \E id \in DOMAIN tunnels :
             tunnels[id].WSConn = c /\ agentUrl[c] = tunnels[id].Path
       /\ \A r \in Ids : calls[c][r] = 0
       /\ toAgent[c] = <<>> /\ toGateway[c] = <<>>
       /\ lastResp.kind = "none" /\ ~orphaned[1] /\ delivered[1] = <<>>

\* the hint of event e is a prefix of body of at most HintLength bytes
HintIsPrefix(e, body) ==
    /\ Len(e.Error) <= HintLength
    /\ HasPrefix(body, e.Error)

\* C20: for each round trip whose HTTPResponse the agent sent, the agent emits
\* exactly one request event carrying the tunnel URL, method, path and status;
\* the event's error hint is non-empty exactly when the status is >= 400, and
\* it is then a prefix of the response body of at most 30 characters
\* (HintLength in the model).
C20_RequestEvent ==
    /\ (step = "done" /\ ~respSent) => received = <<>>
    /\ (step = "done" /\ respSent /\ events) =>
          /\ Len(received) = 1
          /\ received[1].Type = "request"
          /\ received[1].TunnelID = tUrl
          /\ received[1].Method = httpReq.Method
          /\ received[1].Path = httpReq.Path
          /\ received[1].Status = localResp.StatusCode
          /\ received[1].Error # <<>> <=> localResp.StatusCode >= 400
          /\ received[1].Error # <<>> => HintIsPrefix(received[1], localResp.Body)

\* the agent's loop on c ends in this step
LoopEnds(c) == cli[c] = "loop" /\ cli'[c] = "done"

\* C21: whenever an agent's dispatch loop ends because its connection to the
\* gateway failed (a failed receive or a failed send), the observer receives
\* exactly one terminal event that carries the transport error and has the
\* connection-failed flag set.
C21_TerminalEvent ==
    [][\A c \in Conns :
          (LoopEnds(c) /\ events) =>
             /\ Len(received') = Len(received) + 1
             /\ received'[Len(received')].ConnectionFailed
             /\ received'[Len(received')].Error # ""
             /\ received'[Len(received')].TunnelID = agentUrl[c]]_vars

\* C22: when the agent's dispatcher receives an Error frame it reports it to
\* the observer and then shuts down: it reads no further frames, closes its
\* connection and removes the tunnel from the manager's tunnel set.
C22_ErrorIsTerminal ==
    [][\A c \in Conns :
          (/\ cli[c] = "loop" /\ AgentCanReceive(c)
           /\ Head(toAgent[c]).Type = "error"
           /\ toAgent'[c] # toAgent[c])
             => /\ events => received' = Append(received, ErrorEvent(Head(toAgent[c])))
                /\ cli'[c] = "done"
                /\ cliClosed'[c]
                /\ agentUrl[c] \notin DOMAIN agentTunnels']_vars

\* C23: gateway shutdown closes every active session and leaves no task
\* behind: after Shutdown returns the sweeper loop stops, no tunnel remains in
\* the registry and every pending waiter has been resolved with a terminal
\* error.
C23_ShutdownClosesAll ==
    [][(~done /\ done') =>
          /\ tunnels' = <<>>
          /\ pendingRequests' = <<>>
          /\ \A c \in Conns : srv'[c] # "loop"
          /\ \A p \in Requests :
                pc'[p] = "wait" => (chans'[p].closed \/ chans'[p].buf # <<>>)]_vars

\* C24: extractTunnelIDAndPath returns the tunnel id and the remaining path
\* with the inbound query string included: in path mode a URL
\* /local/{id}{rest}?{query} yields ({id}, {rest}?{query}), and in subdomain
\* mode the id is the leftmost host label and the remaining path is the full
\* request path with its query.
C24_PathKeepsQuery ==
    (args.fn = "extractTunnelIDAndPath" /\ result # NotCalled /\ result.err = "") =>
       IF args.useSubdomain
       THEN /\ result.tunnelID = LabelText(args.host[1])
            /\ result.remainingPath = args.urlStr
       ELSE /\ result.tunnelID = args.urlStr.path[2]
            /\ result.remainingPath =
                  [path |-> SubSeq(args.urlStr.path, 3, Len(args.urlStr.path)),
                   query |-> args.urlStr.query]

\* C25: a request to /tunnel that is not a WebSocket upgrade is answered with
\* 400 and never reaches the frame loop, the tunnel proxy or the web handler's
\* redirect.
C25_TunnelWithoutUpgrade ==
    (/\ args.fn = "Server.ServeHTTP" /\ result # NotCalled
     /\ args.path = <<"tunnel">> /\ args.upgrade # "websocket")
       => /\ result.status = StatusBadRequest
          /\ result.handler \notin {"tunnel.HandleWS", "tunnel.ServeHTTP", "web.redirect"}

\* the lower-cased names of the headers that are in a header map
Names(headers) == {ToLower(k) : k \in {n \in DOMAIN headers : headers[n] # Absent}}

\* every header of out is a header of in with its value
Subset(out, in) == \A k \in DOMAIN out : out[k] # Absent => out[k] = in[k]

\* C26: only allow-listed headers cross the tunnel: a header of the public
\* request reaches the local server only if its lower-cased name is on the
\* agent's request allow-list, and a header of the local response reaches the
\* public caller only if its lower-cased name is on the gateway's response
\* allow-list (the connection/upgrade/sec-websocket family is added only for a
\* WebSocket upgrade); Content-Encoding is never forwarded to the public caller.
C26_AllowListedHeaders ==
    /\ (args.fn = "requestHeaders" /\ result # NotCalled) =>
          /\ Subset(result, args.headers)
          /\ Names(result) \subseteq headersToKeep(isWebSocketUpgrade(args.headers))
          /\ ~isWebSocketUpgrade(args.headers) => Names(result) \cap WebSocketHeaders = {}
    /\ (args.fn = "responseHeaders" /\ result # NotCalled) =>
          /\ Subset(result, args.headers)
          /\ Names(result) \subseteq responseHeadersToKeep(isWebSocketUpgrade(args.headers))
          /\ ~isWebSocketUpgrade(args.headers) => Names(result) \cap WebSocketHeaders = {}
          /\ result.ContentEncoding = Absent

\* C26 at work: the public request carries X-Forwarded-For, X-Evil and the
\* headers of an upgrade that is none (Connection: keep-alive); the local
\* server gets X-Forwarded-For only
C26_Witness ==
    /\ args.fn = "requestHeaders" /\ result # NotCalled
    /\ args.headers.XEvil = "attack" /\ args.headers.XForwardedFor = "1.2.3.4"
    /\ args.headers.Upgrade = "websocket" /\ args.headers.Connection = "keep-alive"
    /\ args.headers.SecWebSocketKey = "k"
    /\ Names(result) = {"x-forwarded-for"}

\* C27: a request id allocated for a new public request is never equal to a
\* request id that currently has a slot in the pending set, so registering a
\* slot never overwrites another waiter's slot.
C27_FreshRequestId ==
    [][\A p \in Requests :
          (pc[p] = "register" /\ pc'[p] = "forward")
             => requestId'[p] \notin DOMAIN pendingRequests]_vars

\* a call of ServeHTTP that registered a slot and has returned
Returned(p) ==
    pc[p] = "done" /\ outcome[p] \in {"response", "timeout", "readfail", "sendfail", "nil"}

\* a returned call has left no slot behind: neither its channel nor, when it
\* was the last to register its request id, that id
NoSlotLeft ==
    /\ \A p \in Requests : Returned(p) => p \notin Range(pendingRequests)
    /\ (\A p \in Requests : pc[p] \in {"idle", "done"}) => pendingRequests = <<>>

\* the return of a call takes the key of its request id out of the map
ReturnStep ==
    \A p \in Requests :
       (pc[p] = "deferred" /\ pc'[p] = "done")
          => requestId[p] \notin DOMAIN pendingRequests'

\* C28: on every exit path of ServeHTTP after a slot was registered (response
\* relayed, deadline, body-read failure, send failure, gzip failure) that
\* request's slot is no longer in the pending set when ServeHTTP returns; once
\* no public request is in flight the pending set is empty.
C28_SlotRemovedOnReturn == []NoSlotLeft /\ [][ReturnStep]_vars

\* C28 at work: one call returned after its send failed, the other after its
\* deadline, and the pending set is empty
C28_Witness ==
    \E p, q \in Requests :
       /\ Returned(p) /\ outcome[p] = "sendfail"
       /\ Returned(q) /\ outcome[q] = "timeout"
       /\ pendingRequests = <<>>

\* C29: registering a PendingRequest slot and then deregistering it leaves the
\* gateway's pending set and registry identical to their state before the
\* registration, also when other public requests are in flight at the same time.
C29_RegisterDeregister ==
    \A p \in Requests :
       pc[p] = "register" =>
          \A rid \in Ids :
             DeferredDelete(RegisterSlot(pendingRequests, rid, p), rid) = pendingRequests

\* the registry part of a sweep: the tunnels whose Ping failed are gone, the
\* tunnels whose Ping was sent are still there
SweepRegistry(dead) ==
    /\ \A id \in dead : id \notin DOMAIN tunnels'
    /\ \A id \in DOMAIN tunnels \ dead :
          id \in DOMAIN tunnels' /\ tunnels'[id] = tunnels[id]

\* the session part of a sweep: the connection of every tunnel whose Ping
\* failed is closed by the gateway and none of its tunnels is registered
SweepSessions(dead) ==
    \A id \in dead :
       /\ srvClosed'[tunnels[id].WSConn]
       /\ TunnelsOf(tunnels', tunnels[id].WSConn) = {}

\* C30: after a liveness sweep, every tunnel whose probe Ping could not be
\* sent has been removed from the registry and its session has been closed
\* (stream closed, all of that session's tunnels dropped), and every tunnel
\* whose probe Ping was sent successfully is still registered.
C30_SweepClosesDeadSessions ==
    [][\A dead \in SUBSET Ids :
          cleanupLoop(dead) => (SweepRegistry(dead) /\ SweepSessions(dead))]_vars

\* the handleWS loop of connection c takes a Ping or a Pong in this step
TakesPingOrPong(c) ==
    /\ CanReceive(c, "ping") \/ CanReceive(c, "pong")
    /\ toGateway'[c] = Tail(toGateway[c])

\* C33: when the gateway receives a Ping from an agent (and replies Pong), or
\* receives a Pong from an agent, the last_activity of that session's tunnels
\* advances: it is the time of the receipt.
C33_PingPongTouch ==
    [][\A c \in Conns :
          TakesPingOrPong(c) =>
             \A id \in TunnelsOf(tunnels, c) :
                id \in DOMAIN tunnels' => tunnels'[id].LastActivity = now]_vars

\* the channel of every slot in the pending map is open, empty and was never
\* sent on
SlotsHaveRoom ==
    \A rid \in DOMAIN pendingRequests :
       LET p == pendingRequests[rid]
       IN /\ Len(chans[p].buf) < ChanCap
          /\ ~chans[p].closed
          /\ delivered[p] = <<>>

\* the send of line 147 can go ahead whenever the loop has an HTTPResponse
ReaderNeverBlocks ==
    \A c \in Conns :
       CanReceive(c, "http_response") =>
          \A p \in DeliverTo(pendingRequests, Head(toGateway[c]).Payload.RequestId) :
             Len(chans[p].buf) < ChanCap

\* C36: delivering an HTTPResponse to a slot while the handler lock is held
\* never blocks: each slot's channel receives at most one value during its
\* lifetime and has room for it, so a session reader cannot deadlock against a
\* waiter that has already timed out or returned.
C36_DeliveryNeverBlocks ==
    /\ SlotsHaveRoom
    /\ ReaderNeverBlocks
    /\ \A p \in Requests : Len(delivered[p]) <= 1

\* C36 at work: the waiter met its deadline, its slot was still in the map, and
\* the response that came then was put on its channel without anyone reading
C36_Witness ==
    \E p \in Requests :
       /\ pc[p] = "deferred" /\ outcome[p] = "timeout"
       /\ Len(delivered[p]) = 1
       /\ Len(chans[p].buf) = ChanCap

\* C37: when a slot's channel is closed by session cleanup or by the sweeper
\* while ServeHTTP is waiting on it, ServeHTTP ends with a well-defined HTTP
\* error response to the public caller and never uses a missing (nil) response
\* as if it were a delivered one.
C37_ClosedChannelAnswered ==
    \A p \in Requests :
       (pc[p] \in {"deferred", "done"} /\ outcome[p] = "nil") => written[p] >= 400

\* C39: every public request handled by ServeHTTP terminates with exactly one
\* HTTP response (the relayed status, 404, 500, 502 or 504), whatever the
\* agent, the sweeper and other public requests do in the meantime; once the
\* HTTPRequest frame has been sent, it terminates no later than the deadline.
\* Here: a call that has returned has written a status.
C39_OneResponse ==
    \A p \in Requests : pc[p] = "done" => written[p] # 0

\* C35: an HTTPResponse frame received on one session resolves only a slot
\* whose HTTPRequest was sent on that same session: a frame arriving on a
\* different session with the request id of another session's pending request
\* does not wake that waiter and does not remove its slot.
C35_SameSessionOnly ==
    [][\A c \in DOMAIN srv :
          TakesHTTPResponse(c) =>
             \A p \in Requests :
                (pc[p] = "wait" /\ tunnelRef[p] # c)
                   => /\ chans'[p] = chans[p]
                      /\ \A rid \in DOMAIN pendingRequests :
                            pendingRequests[rid] = p
                               => rid \in DOMAIN pendingRequests']_vars

\* the session of connection c is live: its handler reads frames and neither
\* end of the connection is closed or cut off
Live(c) ==
    /\ srv[c] \in {"loop", "reply"}
    /\ ~srvClosed[c] /\ ~cliClosed[c] /\ ~lost[c]

\* C38: a tunnel is inserted into the registry before its TunnelResponse is
\* sent, so a public request issued after the agent has received the public
\* URL always finds the tunnel as long as its session is still live.
C38_TunnelFoundWhileLive ==
    \A c \in DOMAIN srv :
       (cli[c] = "loop" /\ agentUrl[c] # <<>> /\ Live(c)) =>
          \E id \in DOMAIN tunnels : tunnels[id].Path = agentUrl[c]

\* the tunnel of connection c is returned by Tunnels()
InTunnels(c) == \E url \in DOMAIN agentTunnels : agentTunnels[url] = c

\* C40: on the agent, a tunnel is in the manager's tunnel set exactly while its
\* dispatch loop is running: after the loop ends for any reason, or after the
\* manager's Close has closed the connections and the loops have observed it,
\* the tunnel is no longer returned by Tunnels() and its connection is closed.
C40_InSetWhileLoopRuns ==
    \A c \in DOMAIN cli :
       /\ cli[c] = "loop" <=> InTunnels(c)
       /\ cli[c] = "done" => cliClosed[c]

\* a call of the event handler made by the loop of c has not returned
ObserverBusy(c) == cli[c] = "notify"

\* a Ping is waiting to be read on c and a Pong could be sent
PingWaiting(c) ==
    /\ AgentCanReceive(c)
    /\ Head(toAgent[c]).Type = "ping"
    /\ AgentSendCanSucceed(c)
    /\ AgentSendHasRoom(c)

\* C34: a slow or blocked observer callback never blocks the agent's
\* dispatcher: the receive loop keeps reading frames and answering Pings while
\* an observer call has not yet returned, and the callback is invoked without
\* the manager's lock held.
C34_ObserverNeverBlocks ==
    \A c \in Conns :
       (ObserverBusy(c) /\ PingWaiting(c)) => ENABLED handleMessagesPing(c)

\* the next statement of the goroutine is an operation on a websocket: a send
\* (lines 87, 130, 196, part_016 237) or a close (line 37)
SweeperAtStream == sweep.at = "ping"
HandlerAtStream(c) ==
    \/ srv[c] \in {"reply", "close"}
    \/ srv[c] = "loop" /\ toGateway[c] # <<>> /\ Head(toGateway[c]).Type = "ping"
RequestAtStream(p) == pc[p] = "forward"

\* C31: the registry lock is never held across stream I/O: the sweeper holds
\* it only while enumerating tunnels, and no probe Ping is sent and no
\* connection is closed while the lock is held, so a slow or stalled
\* connection cannot delay public requests or other sessions that need the
\* lock.
C31_NoStreamUnderLock ==
    /\ SweeperAtStream => mu # Sweeper
    /\ \A c \in Conns : HandlerAtStream(c) => mu # Holder("handleWS", c)
    /\ \A p \in Requests : RequestAtStream(p) => mu # Holder("ServeHTTP", p)

\* the next statement of the goroutine reads or writes th.tunnels or
\* th.pendingRequests
SweeperAtMap == sweep.at \in {"range", "ping"}
HandlerAtMap(c) == srv[c] \in {"scan", "range", "delete", "store", "count", "touch", "deliver"}
RequestAtMap(p) == pc[p] \in {"lookup", "store", "delete"}

\* C32: every read and every write of the gateway's tunnel map and
\* pending-request map happens while the handler's mutex is held, so no map
\* access can run concurrently with a registration, a teardown or a sweep that
\* modifies the map.
C32_MapsUnderLock ==
    /\ SweeperAtMap => mu = Sweeper
    /\ \A c \in Conns : HandlerAtMap(c) => mu = Holder("handleWS", c)
    /\ \A p \in Requests : RequestAtMap(p) => mu = Holder("ServeHTTP", p)


=============================================================================
